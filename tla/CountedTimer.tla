---------------------------- MODULE CountedTimer ----------------------------
(***************************************************************************)
(* What the tasks that use a MultiTimer may rely on: the lambda is entered *)
(* by one task at a time, and entering it counts the repeat and arms the   *)
(* timer for the next one, or resets the counter after the last, in one    *)
(* indivisible step (main/include/multi_timer.hpp:135-149).  This is the   *)
(* form in which module PowerOutput uses its two timers, and module        *)
(* MultiTimer, statement by statement, is shown to be one.  After a stop() *)
(* or pause() nothing is promised.                                         *)
(***************************************************************************)
EXTENDS Naturals

CONSTANTS
  Callers, EspTimer, NoTask,   \* as in MultiTimer
  Requested

VARIABLES
  armed,      \* the one-shot timer is counting down
  holder,     \* the task inside
  count,      \* repeats done, 0 after the last
  place,      \* per task: "idle", "take", "call" or "called"
  number,     \* per task: the repeat it is inside for, 0 outside
  last,       \* number of the latest call
  disturbed   \* the timer was stopped or paused

vars == <<armed, holder, count, place, number, last, disturbed>>

Tasks == Callers \cup {EspTimer}

Init ==
  /\ armed = FALSE
  /\ holder = NoTask
  /\ count = 0
  /\ place = [t \in Tasks |-> "idle"]
  /\ number = [t \in Tasks |-> 0]
  /\ last = 0
  /\ disturbed = FALSE

Goto(t, from, to) ==
  /\ place[t] = from
  /\ place' = [place EXCEPT ![t] = to]

\* start() with first_tick_nodelay.
Start(t) ==
  /\ Goto(t, "idle", "take")
  /\ UNCHANGED <<armed, holder, count, number, last>>

\* start() without, and resume().
Arm ==
  /\ armed' = TRUE
  /\ UNCHANGED <<holder, count, place, number, last>>

Expire ==
  /\ armed /\ armed' = FALSE
  /\ Goto(EspTimer, "idle", "take")
  /\ UNCHANGED <<holder, count, number, last>>

TakeAndCount(t) ==
  LET n == count + 1
  IN /\ Goto(t, "take", "call")
     /\ holder = NoTask /\ holder' = t
     /\ number' = [number EXCEPT ![t] = n]
     /\ count' = IF n < Requested THEN n ELSE 0
     /\ armed' = (armed \/ n < Requested)
     /\ last' = last

Callback(t) ==
  /\ Goto(t, "call", "called")
  /\ last' = number[t]
  /\ UNCHANGED <<armed, holder, count, number>>

Return(t) ==
  /\ Goto(t, "called", "idle")
  /\ holder' = NoTask
  /\ number' = [number EXCEPT ![t] = 0]
  /\ UNCHANGED <<armed, count, last>>

Undisturbed ==
  /\ ~disturbed /\ ~disturbed'
  /\ \/ \E t \in Callers : Start(t)
     \/ Arm
     \/ Expire
     \/ \E t \in Tasks : TakeAndCount(t) \/ Callback(t) \/ Return(t)

Disturbed == disturbed' = TRUE

Next == Undisturbed \/ Disturbed

Spec == Init /\ [][Next]_vars
=============================================================================
