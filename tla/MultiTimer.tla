---------------------------- MODULE MultiTimer ----------------------------
(***************************************************************************)
(* One attached MultiTimer (main/include/multi_timer.hpp).                 *)
(*                                                                         *)
(* The callback lambda runs in two kinds of tasks: in the esp_timer task   *)
(* when the one-shot hardware timer expires, and directly in the task that *)
(* calls start() when first_tick_nodelay is set.  A mutex serialises the   *)
(* two.  start(), stop(), pause() and resume() themselves take no mutex.   *)
(* Every access to a shared variable is a step of its own, because the     *)
(* tasks preempt each other and run on two cores.                          *)
(***************************************************************************)
EXTENDS Integers

CONSTANTS
  Callers,           \* tasks that call the public methods
  EspTimer,          \* the esp_timer task
  NoTask,            \* the mutex is free
  Requested          \* _repeat_count_requested

ASSUME CallerAssumption == EspTimer \notin Callers
ASSUME NoTaskAssumption == NoTask \notin Callers \cup {EspTimer}
ASSUME RequestedAssumption == Requested \in Nat \ {0}

VARIABLES
  first_tick_nodelay,  \* _first_tick_nodelay, given to attach_static_ms
  armed,         \* the one-shot esp_timer is counting down
  holder,        \* owner of _reentry_mutex
  count,         \* _repeat_count
  repeat_count,  \* the lambda's local variable, per task
  pc,            \* where each task is
  last,          \* history: number given to the latest callback call
  disturbed      \* history: stop() or pause() has been called

vars == <<first_tick_nodelay, armed, holder, count, repeat_count, pc, last,
          disturbed>>

Tasks == Callers \cup {EspTimer}

\* Program points of the lambda that are inside the mutex.
Locked == {"store", "rearm", "call", "give"}

Goto(t, from, to) ==
  /\ pc[t] = from
  /\ pc' = [pc EXCEPT ![t] = to]

(***************************************************************************)
(* The timer has just been attached: created, not activated.               *)
(***************************************************************************)
Init ==
  /\ first_tick_nodelay \in BOOLEAN
  /\ armed = FALSE
  /\ holder = NoTask
  /\ count = 0
  /\ repeat_count = [t \in Tasks |-> 0]
  /\ pc = [t \in Tasks |-> "idle"]
  /\ last = 0
  /\ disturbed = FALSE

(***************************************************************************)
(* The public methods.                                                     *)
(***************************************************************************)

\* start() with first_tick_nodelay: the lambda runs in the caller's task.
StartNow(t) ==
  /\ first_tick_nodelay
  /\ Goto(t, "idle", "take")
  /\ UNCHANGED <<first_tick_nodelay, armed, holder, count, repeat_count, last,
                 disturbed>>

\* start() without: esp_timer_start_once, an error if the timer is armed.
StartDelayed(t) ==
  /\ ~first_tick_nodelay
  /\ pc[t] = "idle"
  /\ armed' = TRUE
  /\ UNCHANGED <<first_tick_nodelay, holder, count, repeat_count, pc, last,
                 disturbed>>

\* stop(), first statement: esp_timer_stop.
StopTimer(t) ==
  /\ Goto(t, "idle", "reset")
  /\ armed' = FALSE
  /\ disturbed' = TRUE
  /\ UNCHANGED <<first_tick_nodelay, holder, count, repeat_count, last>>

\* stop(), second statement: the repeats are reset, without the mutex.
StopReset(t) ==
  /\ Goto(t, "reset", "idle")
  /\ count' = 0
  /\ UNCHANGED <<first_tick_nodelay, armed, holder, repeat_count, last,
                 disturbed>>

Pause(t) ==
  /\ pc[t] = "idle"
  /\ armed' = FALSE
  /\ disturbed' = TRUE
  /\ UNCHANGED <<first_tick_nodelay, holder, count, repeat_count, pc, last>>

Resume(t) ==
  /\ pc[t] = "idle"
  /\ armed' = TRUE
  /\ UNCHANGED <<first_tick_nodelay, holder, count, repeat_count, pc, last,
                 disturbed>>

(***************************************************************************)
(* The one-shot timer expires: it is disarmed and the esp_timer task calls *)
(* the lambda.  That task serves one expiry at a time.                     *)
(***************************************************************************)
Expire ==
  /\ armed
  /\ Goto(EspTimer, "idle", "take")
  /\ armed' = FALSE
  /\ UNCHANGED <<first_tick_nodelay, holder, count, repeat_count, last,
                 disturbed>>

(***************************************************************************)
(* _cb_lambda, statement by statement, in task t.                          *)
(***************************************************************************)

\* Bug: the lambda does not wait for the mutex.
EnterWithoutMutex(t) ==
  /\ Goto(t, "take", "store")
  /\ holder' = t
  /\ repeat_count' = [repeat_count EXCEPT ![t] = count + 1]
  /\ UNCHANGED <<first_tick_nodelay, armed, count, last, disturbed>>

\* _mutex_take() and the load of ++_repeat_count.
Enter(t) ==
  /\ holder = NoTask
  /\ Goto(t, "take", "store")
  /\ holder' = t
  /\ repeat_count' = [repeat_count EXCEPT ![t] = count + 1]
  /\ UNCHANGED <<first_tick_nodelay, armed, count, last, disturbed>>

\* The store of ++_repeat_count.
Store(t) ==
  /\ Goto(t, "store", "rearm")
  /\ count' = repeat_count[t]
  /\ UNCHANGED <<first_tick_nodelay, armed, holder, repeat_count, last,
                 disturbed>>

\* Bug: one repeat too many is accepted before the timer is left alone.
RearmPastTheLast(t) ==
  /\ Goto(t, "rearm", "call")
  /\ \/ repeat_count[t] <= Requested /\ armed' = TRUE /\ count' = count
     \/ repeat_count[t] > Requested /\ armed' = armed /\ count' = 0
  /\ UNCHANGED <<first_tick_nodelay, holder, repeat_count, last, disturbed>>

\* Bug: the timer is not started again between two repeats.
RearmForgotten(t) ==
  /\ Goto(t, "rearm", "call")
  /\ count' = IF repeat_count[t] < Requested THEN count ELSE 0
  /\ UNCHANGED <<first_tick_nodelay, armed, holder, repeat_count, last,
                 disturbed>>

\* Arm for the next repeat, or reset the repeats after the last.
Rearm(t) ==
  /\ Goto(t, "rearm", "call")
  /\ \/ repeat_count[t] < Requested /\ armed' = TRUE /\ count' = count
     \/ repeat_count[t] >= Requested /\ armed' = armed /\ count' = 0
  /\ UNCHANGED <<first_tick_nodelay, holder, repeat_count, last, disturbed>>

\* cb(arg, repeat_count)
Callback(t) ==
  /\ Goto(t, "call", "give")
  /\ last' = repeat_count[t]
  /\ UNCHANGED <<first_tick_nodelay, armed, holder, count, repeat_count,
                 disturbed>>

\* _mutex_give()
Give(t) ==
  /\ Goto(t, "give", "idle")
  /\ holder' = NoTask
  /\ UNCHANGED <<first_tick_nodelay, armed, count, repeat_count, last,
                 disturbed>>

Lambda(t) == Enter(t) \/ Store(t) \/ Rearm(t) \/ Callback(t) \/ Give(t)

Method(t) ==
  \/ StartNow(t) \/ StartDelayed(t)
  \/ StopTimer(t) \/ StopReset(t)
  \/ Pause(t) \/ Resume(t)

Next ==
  \/ Expire
  \/ \E t \in Tasks : Lambda(t)
  \/ \E t \in Callers : Method(t)

Spec == Init /\ [][Next]_vars

(***************************************************************************)
(* The esp_timer service runs expired timers, and a task inside the lambda *)
(* or blocked on the mutex is scheduled again.  Nobody has to call a       *)
(* public method.                                                          *)
(***************************************************************************)
FairSpec ==
  /\ Spec
  /\ WF_vars(Expire)
  /\ \A t \in Tasks : WF_vars(Lambda(t))

-----------------------------------------------------------------------------
(***************************************************************************)
(* Properties.                                                             *)
(***************************************************************************)

\* Every variable keeps its type, and the shared repeat counter stays within
\* the requested repeats.
TypeOK ==
  /\ first_tick_nodelay \in BOOLEAN
  /\ armed \in BOOLEAN
  /\ holder \in Tasks \cup {NoTask}
  /\ count \in 0 .. Requested
  /\ repeat_count \in [Tasks -> 0 .. Requested + 1]
  /\ pc \in [Tasks -> {"idle", "take", "reset"} \cup Locked]
  /\ last \in 0 .. Requested
  /\ disturbed \in BOOLEAN

\* The user's callback never runs in two tasks at once, whatever methods are
\* called from wherever: what the comment at multi_timer.hpp:50-53 says the
\* mutex is for.
MutualExclusion ==
  \A t, u \in Tasks : pc[t] \in Locked /\ pc[u] \in Locked => t = u

\* Whatever interleaving of start, stop, pause and resume with a running
\* callback: the callback is only ever given a repeat number it was attached
\* for, so the power pulse always meets its "off" branch at number 2 and the
\* overcurrent reset knows all of its three phases (multi_timer.hpp:138-142).
CallbackNumberInRange ==
  \A t \in Tasks : pc[t] = "call" => repeat_count[t] \in 1 .. Requested

\* As long as nobody stops or pauses the timer, an unfinished round of
\* repeats is never abandoned: outside the lambda, either the timer counts
\* down to the next repeat or the esp_timer task is already on its way to it
\* (multi_timer.hpp:138-142).  A one-shot power pulse relies on this to end.
RoundNeverAbandoned ==
  ~disturbed /\ count > 0 /\ holder = NoTask
    => armed \/ pc[EspTimer] = "take"

\* The timer implements RepeatCycle: calls come numbered 1, 2, ..., Requested
\* in order although start() may be called again in the middle of a round
\* from another task, and every round that begins is finished, until
\* somebody stops or pauses the timer.
Cycle == INSTANCE RepeatCycle WITH
           Requested <- Requested, last <- last, disturbed <- disturbed
ImplementsRepeatCycle == Cycle!Spec

\* The timer implements CountedTimer: although the lambda counts, arms and
\* resets in several statements while other tasks come and go, it does so for
\* them in one step, the last of these (multi_timer.hpp:135-149).
Entered(t) == pc[t] \in {"call", "give"}

CountedPlace(t) ==
  CASE pc[t] \in {"take", "store", "rearm"} -> "take"
    [] pc[t] = "call" -> "call"
    [] pc[t] = "give" -> "called"
    [] OTHER -> "idle"

Counted == INSTANCE CountedTimer WITH
  holder <- IF holder # NoTask /\ Entered(holder) THEN holder ELSE NoTask,
  count <- IF \E t \in Tasks : pc[t] = "rearm" THEN count - 1 ELSE count,
  place <- [t \in Tasks |-> CountedPlace(t)],
  number <- [t \in Tasks |-> IF Entered(t) THEN repeat_count[t] ELSE 0]
ImplementsCountedTimer == Counted!Spec
=============================================================================
