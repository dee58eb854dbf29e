------------------------- MODULE PowerOutputProofs -------------------------
(***************************************************************************)
(* Proofs about PowerOutput, for every set of commands, with the two tasks *)
(* on one core or on two.                                                  *)
(***************************************************************************)
EXTENDS PowerOutput, TLAPS

\* A task inside a MultiTimer lambda holds that timer's mutex; a task that
\* runs no lambda has no timer, and the event loop never does.
LockInv ==
  /\ \A t \in Tasks :
       /\ timer[t] # None /\ pc[t] # "take" => holder[timer[t]] = t
       /\ pc[t] \in {"idle", "evaluate", "branch"} => timer[t] = None
       /\ pc[t] \in {"take", "call"} => timer[t] # None
  /\ timer[app_task] = None

\* Task t is about to run the callback of timer m.
Calls(t, m) == pc[t] = "call" /\ timer[t] = m

\* The number of the repeat the counter of timer m stands for.
Reached(m) == IF count[m] = 0 THEN Repeats(m) ELSE count[m]

\* Repeats follow one another: the callback about to run is the one after the
\* latest, and without one the counter agrees with the latest.  The reset
\* line is active between the first and the second repeat.
RepeatInv ==
  /\ \A t \in Tasks, m \in Timers : Calls(t, m) =>
       /\ repeat_count[t] = Reached(m)
       /\ \/ last[m] = repeat_count[t] - 1
          \/ repeat_count[t] = 1 /\ last[m] = Repeats(m)
  /\ \A m \in Timers : (\A t \in Tasks : ~Calls(t, m)) =>
       last[m] = count[m] \/ (count[m] = 0 /\ last[m] = Repeats(m))
  /\ reset_pin <=> last[oc_reset_timer] = 1

\* Before the first clear_shutdown the latched flag lets no task get to the
\* point where it enables the output.
BootInv ==
  consent = "boot" =>
    hw_overtemp /\ ~output /\ (\A t \in Tasks : pc[t] # "enable")

Inv == TypeOK /\ LockInv /\ RepeatInv

USE DistinctTasks, DistinctTimers, NoneAssumption

\* The constants that the actions name are tasks and timers.
LEMMA Members ==
  /\ {async_tcp, app_task, esp_timer} \subseteq Tasks
  /\ {power_output_timer, oc_reset_timer} \subseteq Timers
  /\ None \notin Tasks /\ None \notin Timers
  /\ \A m \in Timers : Repeats(m) \in {2, 3}
  /\ Repeats(oc_reset_timer) = 3
  BY DEF Tasks, Timers, Repeats

LEMMA InvInit == Init => Inv
<1> SUFFICES ASSUME Init PROVE TypeOK /\ LockInv /\ RepeatInv
  BY DEF Inv
<1>1. TypeOK
  <2>1. count \in [Timers -> 0 .. 2] /\ last \in [Timers -> 0 .. 3]
    BY DEF Init
  <2>2. \A m \in Timers : count[m] < Repeats(m) /\ last[m] <= Repeats(m)
    BY Members DEF Init
  <2>3. repeat_count \in [Tasks -> 0 .. 3]
    BY DEF Init
  <2>4. holder \in [Timers -> {async_tcp, esp_timer, None}]
    BY DEF Init
  <2>5. timer \in [Tasks -> Timers \cup {None}]
    BY DEF Init
  <2>6. pc \in [Tasks -> {"idle", "check", "enable", "disable", "take", "call",
                  "return", "evaluate", "branch", "sensors", "shutdown"}]
    BY DEF Init
  <2>7. armed \in [Timers -> BOOLEAN]
    BY DEF Init
  <2> QED
    BY <2>1, <2>2, <2>3, <2>4, <2>5, <2>6, <2>7 DEF Init, TypeOK
<1>2. LockInv
  BY Members DEF Init, LockInv
<1>3. RepeatInv
  <2>1. \A m \in Timers : last[m] = 0 /\ count[m] = 0
    BY DEF Init
  <2>2. \A t \in Tasks, m \in Timers : ~Calls(t, m)
    BY DEF Init, Calls
  <2>3. reset_pin <=> last[oc_reset_timer] = 1
    BY <2>1, Members DEF Init
  <2> QED
    BY <2>1, <2>2, <2>3 DEF RepeatInv
<1> QED
  BY <1>1, <1>2, <1>3

\* One step of a task inside a handler or a lambda.
LEMMA RunningKeepsInv ==
  ASSUME TypeOK, LockInv, RepeatInv,
         NEW t \in {async_tcp, esp_timer}, Running(t)
  PROVE  TypeOK' /\ LockInv' /\ RepeatInv'
<1> USE Members
<1>1. t \in Tasks /\ t # app_task
  OBVIOUS
<1>2. CASE CheckOvertemp(t)
  BY <1>1, <1>2 DEF CheckOvertemp, Goto, TypeOK, LockInv, RepeatInv, Calls,
                    Reached, hardware, thermal, multitimers, locals, history
<1>3. CASE EnableOutput(t)
  BY <1>1, <1>3 DEF EnableOutput, Goto, TypeOK, LockInv, RepeatInv, Calls,
                    Reached, thermal, multitimers, locals, history
<1>4. CASE DisableOutput(t)
  BY <1>1, <1>4 DEF DisableOutput, Goto, TypeOK, LockInv, RepeatInv, Calls,
                    Reached, thermal, multitimers, locals, history
<1>5. CASE TakeAndCount(t)
  <2> DEFINE m == timer[t]
  <2>1. m \in Timers /\ count[m] + 1 <= Repeats(m) /\ count[m] \in 0 .. 2
    BY <1>1, <1>5 DEF TakeAndCount, Goto, TypeOK, LockInv
  <2>2. TypeOK'
    BY <1>1, <1>5, <2>1 DEF TakeAndCount, Goto, TypeOK, hardware, thermal,
                            history
  <2>3. LockInv'
    BY <1>1, <1>5, <2>1 DEF TakeAndCount, Goto, TypeOK, LockInv
  <2>4. RepeatInv'
    <3>1. \A u \in Tasks : ~Calls(u, m)
      BY <1>5, <2>1 DEF TakeAndCount, LockInv, Calls
    <3>2. last[m] = count[m] \/ (count[m] = 0 /\ last[m] = Repeats(m))
      BY <2>1, <3>1 DEF RepeatInv
    <3>3. repeat_count'[t] = count[m] + 1 /\ last' = last
            /\ reset_pin' = reset_pin /\ timer' = timer
            /\ \A u \in Tasks \ {t} : repeat_count'[u] = repeat_count[u]
      BY <1>1, <1>5 DEF TakeAndCount, TypeOK, hardware, history
    <3>4. Reached(m)' = count[m] + 1
      BY <1>5, <2>1 DEF TakeAndCount, TypeOK, Reached
    <3>5. \A n \in Timers \ {m} : count'[n] = count[n]
      BY <1>5 DEF TakeAndCount, TypeOK
    <3>6. /\ Calls(t, m)'
          /\ \A u \in Tasks, n \in Timers :
               u # t \/ n # m => (Calls(u, n)' <=> Calls(u, n))
      BY <1>1, <1>5 DEF TakeAndCount, Goto, TypeOK, Calls
    <3>7. \A u \in Tasks, n \in Timers : Calls(u, n)' =>
            /\ repeat_count'[u] = Reached(n)'
            /\ \/ last'[n] = repeat_count'[u] - 1
               \/ repeat_count'[u] = 1 /\ last'[n] = Repeats(n)
      <4> SUFFICES ASSUME NEW u \in Tasks, NEW n \in Timers, Calls(u, n)'
                   PROVE  /\ repeat_count'[u] = Reached(n)'
                          /\ \/ last'[n] = repeat_count'[u] - 1
                             \/ repeat_count'[u] = 1 /\ last'[n] = Repeats(n)
        OBVIOUS
      <4>1. CASE n = m
        <5>1. u = t
          BY <1>1, <3>1, <3>6, <4>1
        <5> QED
          BY <5>1, <4>1, <2>1, <3>2, <3>3, <3>4 DEF TypeOK
      <4>2. CASE n # m
        <5>1. u # t
          BY <3>3, <3>6, <4>2 DEF Calls
        <5> QED
          BY <5>1, <4>2, <3>3, <3>5, <3>6 DEF RepeatInv, Reached
      <4> QED
        BY <4>1, <4>2
    <3>8. \A n \in Timers : (\A u \in Tasks : ~Calls(u, n)') =>
            last'[n] = count'[n] \/ (count'[n] = 0 /\ last'[n] = Repeats(n))
      BY <1>1, <3>3, <3>5, <3>6 DEF RepeatInv
    <3> QED
      BY <3>3, <3>7, <3>8 DEF RepeatInv
  <2> QED
    BY <2>2, <2>3, <2>4
<1>6. CASE PulseCallback(t)
  <2>1. Calls(t, power_output_timer)
    BY <1>6 DEF PulseCallback, Goto, Calls
  <2>2. repeat_count[t] <= Repeats(power_output_timer)
    BY <1>1, <2>1 DEF RepeatInv, Reached, TypeOK
  <2>3. TypeOK'
    BY <1>1, <1>6, <2>2 DEF PulseCallback, Goto, TypeOK, hardware, thermal,
                            multitimers, locals
  <2>4. LockInv'
    BY <1>1, <1>6 DEF PulseCallback, Goto, TypeOK, LockInv, multitimers, locals
  <2>5. RepeatInv'
    <3>1. /\ last' = [last EXCEPT ![power_output_timer] = repeat_count[t]]
          /\ count' = count /\ repeat_count' = repeat_count
          /\ reset_pin' = reset_pin /\ timer' = timer
      BY <1>6 DEF PulseCallback, hardware, multitimers, locals
    <3>2. \A u \in Tasks, n \in Timers : Calls(u, n)' => Calls(u, n) /\ u # t
      BY <1>1, <1>6 DEF PulseCallback, Goto, TypeOK, Calls, locals
    <3>3. \A u \in Tasks \ {t}, n \in Timers : Calls(u, n) => Calls(u, n)'
      BY <1>1, <1>6 DEF PulseCallback, Goto, TypeOK, Calls, locals
    <3>4. \A u \in Tasks : Calls(u, power_output_timer) => u = t
      BY <1>1, <2>1 DEF LockInv, Calls
    <3>5. last'[oc_reset_timer] = last[oc_reset_timer]
      BY <3>1 DEF TypeOK
    <3>6. last'[power_output_timer] = repeat_count[t]
      BY <3>1 DEF TypeOK
    <3>7. repeat_count[t] = Reached(power_output_timer)
      BY <1>1, <2>1 DEF RepeatInv
    <3>8. Timers = {power_output_timer, oc_reset_timer}
      BY DEF Timers
    <3>9. \A u \in Tasks : ~Calls(u, power_output_timer)'
      BY <3>2, <3>4
    <3>10. \A u \in Tasks :
             Calls(u, oc_reset_timer)' <=> Calls(u, oc_reset_timer)
      BY <1>1, <2>1, <3>2, <3>3 DEF Calls
    <3>11. \A u \in Tasks, n \in Timers : Calls(u, n)' =>
            /\ repeat_count'[u] = Reached(n)'
            /\ \/ last'[n] = repeat_count'[u] - 1
               \/ repeat_count'[u] = 1 /\ last'[n] = Repeats(n)
      BY <3>1, <3>5, <3>8, <3>9, <3>10 DEF RepeatInv, Reached
    <3>12. \A n \in Timers : (\A u \in Tasks : ~Calls(u, n)') =>
            last'[n] = count'[n] \/ (count'[n] = 0 /\ last'[n] = Repeats(n))
      BY <3>1, <3>5, <3>6, <3>7, <3>8, <3>10 DEF RepeatInv, Reached
    <3> QED
      BY <3>1, <3>5, <3>11, <3>12 DEF RepeatInv
  <2> QED
    BY <2>3, <2>4, <2>5
<1>7. CASE ResetCallback(t)
  <2>1. TypeOK'
    <3>1. reset_pin' \in BOOLEAN /\ soc_fault' \in BOOLEAN
      BY <1>7 DEF ResetCallback, TypeOK
    <3>2. last' \in [Timers -> 0 .. 3]
            /\ \A m \in Timers : last'[m] <= Repeats(m)
      BY <1>1, <1>7 DEF ResetCallback, TypeOK
    <3>3. pc' \in [Tasks -> {"idle", "check", "enable", "disable", "take",
             "call", "return", "evaluate", "branch", "sensors", "shutdown"}]
      BY <1>1, <1>7 DEF ResetCallback, Goto, TypeOK
    <3> QED
      BY <1>7, <3>1, <3>2, <3>3 DEF ResetCallback, TypeOK, thermal,
                                    multitimers, locals
  <2>2. LockInv'
    BY <1>1, <1>7 DEF ResetCallback, Goto, TypeOK, LockInv, multitimers, locals
  <2>3. RepeatInv'
    <3>1. /\ last' = [last EXCEPT ![oc_reset_timer] = repeat_count[t]]
          /\ count' = count /\ repeat_count' = repeat_count /\ timer' = timer
      BY <1>7 DEF ResetCallback, multitimers, locals
    <3>2. \A u \in Tasks, n \in Timers : Calls(u, n)' => Calls(u, n) /\ u # t
      BY <1>1, <1>7 DEF ResetCallback, Goto, TypeOK, Calls, locals
    <3>3. \A u \in Tasks \ {t}, n \in Timers : Calls(u, n) => Calls(u, n)'
      BY <1>1, <1>7 DEF ResetCallback, Goto, TypeOK, Calls, locals
    <3>4. Calls(t, oc_reset_timer)
      BY <1>7 DEF ResetCallback, Goto, Calls
    <3>5. \A u \in Tasks : Calls(u, oc_reset_timer) => u = t
      BY <1>1, <3>4 DEF LockInv, Calls
    <3>6. last'[power_output_timer] = last[power_output_timer]
      BY <3>1 DEF TypeOK
    <3>7. last'[oc_reset_timer] = repeat_count[t]
      BY <3>1 DEF TypeOK
    <3>8. /\ repeat_count[t] = Reached(oc_reset_timer)
          /\ \/ last[oc_reset_timer] = repeat_count[t] - 1
             \/ repeat_count[t] = 1 /\ last[oc_reset_timer] = 3
      BY <1>1, <3>4 DEF RepeatInv
    <3>9. \A u \in Tasks : ~Calls(u, oc_reset_timer)'
      BY <3>2, <3>5
    <3>10. \A u \in Tasks :
             Calls(u, power_output_timer)' <=> Calls(u, power_output_timer)
      BY <1>1, <3>2, <3>3, <3>4 DEF Calls
    <3>11. reset_pin' <=> last'[oc_reset_timer] = 1
      BY <1>7, <3>7, <3>8 DEF ResetCallback, RepeatInv
    <3>12. Timers = {power_output_timer, oc_reset_timer}
      BY DEF Timers
    <3>13. \A u \in Tasks, n \in Timers : Calls(u, n)' =>
            /\ repeat_count'[u] = Reached(n)'
            /\ \/ last'[n] = repeat_count'[u] - 1
               \/ repeat_count'[u] = 1 /\ last'[n] = Repeats(n)
      BY <3>1, <3>6, <3>9, <3>10, <3>12 DEF RepeatInv, Reached
    <3>14. \A n \in Timers : (\A u \in Tasks : ~Calls(u, n)') =>
            last'[n] = count'[n] \/ (count'[n] = 0 /\ last'[n] = Repeats(n))
      BY <3>1, <3>6, <3>7, <3>8, <3>10, <3>12 DEF RepeatInv, Reached
    <3> QED
      BY <3>11, <3>13, <3>14 DEF RepeatInv
  <2> QED
    BY <2>1, <2>2, <2>3
<1>8. CASE Return(t)
  <2>1. TypeOK'
    BY <1>1, <1>8 DEF Return, Goto, TypeOK, hardware, thermal, history
  <2>2. LockInv'
    <3>1. \A u \in Tasks \ {t} : timer[u] # None /\ pc[u] # "take" =>
            timer[u] \in Timers /\ holder'[timer[u]] = u
      BY <1>1, <1>8 DEF Return, TypeOK, LockInv
    <3>2. \A u \in Tasks \ {t} : timer'[u] = timer[u] /\ pc'[u] = pc[u]
      BY <1>1, <1>8 DEF Return, Goto, TypeOK
    <3>3. timer'[t] = None /\ pc'[t] = "idle"
      BY <1>1, <1>8 DEF Return, Goto, TypeOK
    <3> QED
      BY <1>1, <3>1, <3>2, <3>3 DEF LockInv
  <2>3. RepeatInv'
    BY <1>1, <1>8 DEF Return, Goto, TypeOK, RepeatInv, Calls, Reached,
                      hardware, history
  <2> QED
    BY <2>1, <2>2, <2>3
<1> QED
  BY <1>2, <1>3, <1>4, <1>5, <1>6, <1>7, <1>8 DEF Running

\* A step that starts a handler, a lambda or a round of the event loop.
LEMMA OthersKeepInv ==
  ASSUME TypeOK, LockInv, RepeatInv,
         \/ \E m \in Timers : Expire(m)
         \/ Command
         \/ Handler
         \/ EventLoop
         \/ Overcurrent
  PROVE  TypeOK' /\ LockInv' /\ RepeatInv'
<1> USE Members
<1>1. ASSUME NEW m \in Timers, Expire(m)
      PROVE  TypeOK' /\ LockInv' /\ RepeatInv'
  BY <1>1 DEF Expire, Goto, TypeOK, LockInv, RepeatInv, Calls, Reached,
              hardware, thermal, history
<1>2. ASSUME NEW new_val \in BOOLEAN, set_power_pwm_active(new_val)
      PROVE  TypeOK' /\ LockInv' /\ RepeatInv'
  BY <1>2 DEF set_power_pwm_active, Goto, TypeOK, LockInv, RepeatInv, Calls,
              Reached, hardware, thermal, multitimers, locals
<1>3. CASE trigger_oneshot
  BY <1>3 DEF trigger_oneshot, Goto, TypeOK, LockInv, RepeatInv, Calls,
              Reached, hardware, thermal, multitimers
<1>4. CASE clear_shutdown
  BY <1>4 DEF clear_shutdown, Goto, TypeOK, LockInv, RepeatInv, Calls,
              Reached, hardware, multitimers, locals
<1>5. CASE set_temp_limit
  BY <1>5 DEF set_temp_limit, TypeOK, LockInv, RepeatInv, Calls, Reached,
              hardware, multitimers, locals, history
<1>6. CASE ClearEvaluate
  BY <1>6 DEF ClearEvaluate, Goto, TypeOK, LockInv, RepeatInv, Calls,
              Reached, hardware, multitimers, locals, history
<1>7. CASE ClearBranch
  BY <1>7 DEF ClearBranch, Goto, TypeOK, LockInv, RepeatInv, Calls,
              Reached, hardware, thermal, multitimers, history
<1>8. CASE FastPoll
  BY <1>8 DEF FastPoll, Goto, TypeOK, LockInv, RepeatInv, Calls,
              Reached, hardware, thermal, multitimers, locals, history
<1>9. CASE FastSensors
  BY <1>9 DEF FastSensors, Goto, TypeOK, LockInv, RepeatInv, Calls,
              Reached, hardware, multitimers, locals, history
<1>10. CASE SlowEvaluate
  BY <1>10 DEF SlowEvaluate, Goto, TypeOK, LockInv, RepeatInv, Calls,
               Reached, hardware, multitimers, locals, history
<1>11. CASE SlowCheck
  BY <1>11 DEF SlowCheck, Goto, TypeOK, LockInv, RepeatInv, Calls,
               Reached, hardware, thermal, multitimers, locals, history
<1>12. CASE SlowShutdown
  BY <1>12 DEF SlowShutdown, Goto, TypeOK, LockInv, RepeatInv, Calls,
               Reached, thermal, multitimers, locals, history
<1>13. CASE Overcurrent
  BY <1>13 DEF Overcurrent, TypeOK, LockInv, RepeatInv, Calls, Reached,
               thermal, multitimers, locals, history
<1> QED
  BY <1>1, <1>2, <1>3, <1>4, <1>5, <1>6, <1>7, <1>8, <1>9, <1>10, <1>11,
     <1>12, <1>13
  DEF Command, Handler, EventLoop

\* In every reachable state the tasks inside lambdas hold their mutexes, and
\* the counter of each MultiTimer, the local number its lambda works with and
\* the latest callback agree.
LEMMA Invariance == Spec => []Inv
<1>1. Init => Inv
  BY InvInit
<1>2. Inv /\ [Next]_vars => Inv'
  <2> SUFFICES ASSUME TypeOK, LockInv, RepeatInv, [Next]_vars
               PROVE  TypeOK' /\ LockInv' /\ RepeatInv'
    BY DEF Inv
  <2>1. CASE \E t \in {async_tcp, esp_timer} : Running(t)
    BY <2>1, RunningKeepsInv
  <2>2. CASE \/ \E m \in Timers : Expire(m)
             \/ Command
             \/ Handler
             \/ EventLoop
             \/ Overcurrent
    BY <2>2, OthersKeepInv
  <2>3. CASE UNCHANGED vars
    BY <2>3 DEF vars, hardware, thermal, multitimers, locals, history, TypeOK,
                LockInv, RepeatInv, Calls, Reached
  <2> QED
    BY <2>1, <2>2, <2>3 DEF Next
<1> QED
  BY <1>1, <1>2, PTL DEF Spec

\* Every variable of PowerOutput keeps its type, and no counter or repeat
\* number ever leaves the range of its MultiTimer.
THEOREM PowerOutputTypeCorrect == Spec => []TypeOK
  BY Invariance, PTL DEF Inv

\* The fault latch is only given up by the third repeat of the reset pulse,
\* which follows the second, at which the reset line has gone low: however
\* many clear_shutdown commands and timer events run the lambda, from either
\* task (app_controller.cpp:468-472).
THEOREM FaultResetIsComplete == Spec => FaultClearedAfterReset
<1>1. Inv /\ [Next]_vars =>
        [soc_fault /\ ~soc_fault' =>
           last[oc_reset_timer] = 2 /\ ~reset_pin]_vars
  <2> SUFFICES ASSUME TypeOK, LockInv, RepeatInv, Next, soc_fault, ~soc_fault'
               PROVE  last[oc_reset_timer] = 2 /\ ~reset_pin
    BY DEF Inv
  <2> USE Members
  <2>1. PICK t \in {async_tcp, esp_timer} : ResetCallback(t)
    BY DEF Next, Running, Command, Handler, EventLoop, CheckOvertemp,
           EnableOutput, DisableOutput, TakeAndCount, PulseCallback, Return,
           Expire, set_power_pwm_active, trigger_oneshot, clear_shutdown,
           set_temp_limit, ClearEvaluate, ClearBranch, FastPoll, FastSensors,
           SlowEvaluate, SlowCheck, SlowShutdown, Overcurrent, hardware, TypeOK
  <2>2. repeat_count[t] = 3 /\ Calls(t, oc_reset_timer)
    BY <2>1 DEF ResetCallback, Goto, Calls
  <2>3. last[oc_reset_timer] = 2
    BY <2>2 DEF RepeatInv
  <2> QED
    BY <2>3 DEF RepeatInv
<1> QED
  BY <1>1, Invariance, PTL DEF Spec, FaultClearedAfterReset

\* Whatever commands the clients send and however the tasks interleave, the
\* output stays off from power-up to the first clear_shutdown
\* (app_controller.cpp:168-188, 205-217).
THEOREM BootsSafely == Spec => []OffUntilFirstClear
<1>1. Init => BootInv
  BY DEF Init, BootInv
<1>2. Inv /\ BootInv /\ [Next]_vars => BootInv'
  <2> SUFFICES ASSUME TypeOK, BootInv, [Next]_vars, consent' = "boot"
               PROVE  /\ hw_overtemp' /\ ~output'
                      /\ \A t \in Tasks : pc'[t] # "enable"
    BY DEF Inv, BootInv
  <2> USE Members
  <2>1. ASSUME NEW t \in {async_tcp, esp_timer}, Running(t)
        PROVE  hw_overtemp' /\ ~output' /\ \A u \in Tasks : pc'[u] # "enable"
    BY <2>1 DEF Running, CheckOvertemp, EnableOutput, DisableOutput,
           TakeAndCount, PulseCallback, ResetCallback, Return, Goto,
           hardware, thermal, multitimers, locals, history, BootInv, TypeOK
  <2>2. ASSUME NEW m \in Timers, Expire(m)
        PROVE  hw_overtemp' /\ ~output' /\ \A u \in Tasks : pc'[u] # "enable"
    BY <2>2 DEF Expire, Goto, hardware, thermal, history, BootInv, TypeOK
  <2>3. CASE Command
    BY <2>3 DEF Command, set_power_pwm_active, trigger_oneshot,
           clear_shutdown, set_temp_limit, Goto, hardware, thermal, history,
           BootInv, TypeOK
  <2>4. CASE Handler
    BY <2>4 DEF Handler, ClearEvaluate, ClearBranch, Goto, hardware, thermal,
           history, BootInv, TypeOK
  <2>5. CASE EventLoop
    BY <2>5 DEF EventLoop, FastPoll, FastSensors, SlowEvaluate, SlowCheck,
           SlowShutdown, Goto, hardware, thermal, history, BootInv, TypeOK
  <2>6. CASE Overcurrent
    BY <2>6 DEF Overcurrent, thermal, history, BootInv
  <2>7. CASE UNCHANGED vars
    BY <2>7 DEF vars, hardware, thermal, history, BootInv
  <2> QED
    BY <2>1, <2>2, <2>3, <2>4, <2>5, <2>6, <2>7 DEF Next
<1>3. BootInv => OffUntilFirstClear
  BY DEF BootInv, OffUntilFirstClear
<1> QED
  BY <1>1, <1>2, <1>3, Invariance, PTL DEF Spec

\* Without one-shot pulses their timer is idle; and after clear_shutdown has
\* found the output off, no task is on its way to switch it on.
NoPulseInv ==
  /\ ~armed[power_output_timer]
  /\ \A t \in Tasks : timer[t] # power_output_timer
  /\ consent = "cleared" =>
       ~output /\ \A t \in Tasks : pc[t] \notin {"check", "enable"}
  /\ pc[esp_timer] \notin {"check", "enable"}
  /\ pc[app_task] \notin {"check", "enable"}

\* The pulse is what breaks the promise of clear_shutdown not to enable the
\* output again (app_controller.cpp:204): without it the promise is kept,
\* whatever commands, faults, ticks and steps of the reset pulse there are.
THEOREM NotReenabledWithoutPulses ==
  ASSUME "trigger_oneshot" \notin Commands
  PROVE  Spec => []NotReenabledByClear
<1> USE Members
<1>1. Init => NoPulseInv
  BY DEF Init, NoPulseInv
<1>2. Inv /\ NoPulseInv /\ [Next]_vars => NoPulseInv'
  <2> SUFFICES ASSUME TypeOK, LockInv, NoPulseInv, [Next]_vars
               PROVE  NoPulseInv'
    BY DEF Inv
  <2> USE DEF TypeOK, NoPulseInv, Goto, Tasks, Timers
  <2>1. ASSUME NEW t \in {async_tcp, esp_timer}, Running(t)
        PROVE  NoPulseInv'
    <3>1. CASE CheckOvertemp(t)
      BY <3>1 DEF CheckOvertemp, hardware, multitimers, locals, history
    <3>2. CASE EnableOutput(t)
      BY <3>2 DEF EnableOutput, multitimers, locals, history
    <3>3. CASE DisableOutput(t)
      BY <3>3 DEF DisableOutput, multitimers, locals, history
    <3>4. CASE TakeAndCount(t)
      BY <3>4 DEF TakeAndCount, LockInv, hardware, history
    <3>5. CASE ResetCallback(t)
      BY <3>5 DEF ResetCallback, multitimers, locals
    <3>6. CASE Return(t)
      BY <3>6 DEF Return, hardware, history
    <3>7. ~PulseCallback(t)
      BY DEF PulseCallback
    <3>8. QED
      BY <2>1, <3>1, <3>2, <3>3, <3>4, <3>5, <3>6, <3>7 DEF Running
  <2>2. ASSUME NEW m \in Timers, Expire(m)
        PROVE  NoPulseInv'
    BY <2>2 DEF Expire, hardware, history
  <2>3. CASE Command
    <3>1. ASSUME NEW new_val \in BOOLEAN, set_power_pwm_active(new_val)
          PROVE  NoPulseInv'
      BY <3>1 DEF set_power_pwm_active, hardware, multitimers, locals
    <3>2. CASE clear_shutdown
      BY <3>2 DEF clear_shutdown, hardware, multitimers, locals
    <3>3. CASE set_temp_limit
      BY <3>3 DEF set_temp_limit, hardware, multitimers, locals, history
    <3>4. ~trigger_oneshot
      BY DEF trigger_oneshot
    <3>5. QED
      BY <2>3, <3>1, <3>2, <3>3, <3>4 DEF Command
  <2>4. CASE Handler
    BY <2>4 DEF Handler, ClearEvaluate, ClearBranch, hardware, multitimers,
           locals, history
  <2>5. CASE EventLoop
    BY <2>5 DEF EventLoop, FastPoll, FastSensors, SlowEvaluate, SlowCheck,
           SlowShutdown, hardware, multitimers, locals, history
  <2>6. CASE Overcurrent
    BY <2>6 DEF Overcurrent, multitimers, locals, history
  <2>7. CASE UNCHANGED vars
    BY <2>7 DEF vars, hardware, multitimers, locals, history
  <2> QED
    BY <2>1, <2>2, <2>3, <2>4, <2>5, <2>6, <2>7 DEF Next
<1>3. NoPulseInv => NotReenabledByClear
  BY DEF NoPulseInv, NotReenabledByClear
<1> QED
  BY <1>1, <1>2, <1>3, Invariance, PTL DEF Spec

-----------------------------------------------------------------------------
(***************************************************************************)
(* The two timers.  PowerOutput takes a MultiTimer's mutex, counts and     *)
(* arms in one step.  Seen from one timer, what all tasks do is a          *)
(* CountedTimer, and so is what module MultiTimer does statement by        *)
(* statement (theorem TimerIsCounted): the coarser step is justified.      *)
(***************************************************************************)

\* Where task t is in the lambda of timer m.
TimerPlace(t, m) ==
  IF timer[t] # m THEN "idle"
  ELSE IF pc[t] \in {"take", "call"} THEN pc[t]
  ELSE "called"

Used(m) == INSTANCE CountedTimer WITH
  Callers <- {async_tcp}, EspTimer <- esp_timer, NoTask <- None,
  Requested <- Repeats(m),
  armed <- armed[m], holder <- holder[m], count <- count[m],
  place <- [t \in {async_tcp, esp_timer} |-> TimerPlace(t, m)],
  number <- [t \in {async_tcp, esp_timer} |->
               IF timer[t] = m THEN repeat_count[t] ELSE 0],
  last <- last[m], disturbed <- FALSE

\* A mutex is held by a task inside of its timer's lambda only, and a task
\* works with a number from the counting to its return.
HolderInv ==
  /\ \A t \in Tasks, m \in Timers : holder[m] = t =>
       timer[t] = m /\ pc[t] \in {"call", "check", "enable", "disable",
                                  "return"}
  /\ \A t \in Tasks :
       \/ t = app_task
       \/ pc[t] \in {"idle", "take", "evaluate", "branch"}
       => repeat_count[t] = 0

LEMMA HolderStep ==
  ASSUME TypeOK, LockInv, HolderInv, [Next]_vars
  PROVE  HolderInv'
<1> USE Members
<1> USE DEF TypeOK, LockInv, HolderInv, Goto, hardware, thermal, multitimers,
            locals, history
<1>1. ASSUME NEW t \in {async_tcp, esp_timer}, Running(t)
      PROVE  HolderInv'
  <2>1. CASE CheckOvertemp(t)
    BY <2>1 DEF CheckOvertemp
  <2>2. CASE EnableOutput(t) \/ DisableOutput(t)
    BY <2>2 DEF EnableOutput, DisableOutput
  <2>3. CASE TakeAndCount(t)
    BY <2>3 DEF TakeAndCount
  <2>4. CASE PulseCallback(t)
    BY <2>4 DEF PulseCallback
  <2>5. CASE ResetCallback(t)
    BY <2>5 DEF ResetCallback
  <2>6. CASE Return(t)
    BY <2>6 DEF Return
  <2>7. QED
    BY <1>1, <2>1, <2>2, <2>3, <2>4, <2>5, <2>6 DEF Running
<1>2. ASSUME NEW m \in Timers, Expire(m)
      PROVE  HolderInv'
  BY <1>2 DEF Expire
<1>3. CASE Command
  BY <1>3 DEF Command, set_power_pwm_active, trigger_oneshot, clear_shutdown,
         set_temp_limit
<1>4. CASE Handler
  BY <1>4 DEF Handler, ClearEvaluate, ClearBranch
<1>5. CASE EventLoop
  BY <1>5 DEF EventLoop, FastPoll, FastSensors, SlowEvaluate,
              SlowCheck, SlowShutdown
<1>6. CASE Overcurrent
  BY <1>6 DEF Overcurrent
<1>7. CASE UNCHANGED vars
  BY <1>7 DEF vars
<1>8. QED
  BY <1>1, <1>2, <1>3, <1>4, <1>5, <1>6, <1>7 DEF Next

LEMMA HolderInvariant == Spec => []HolderInv
<1>1. Init => HolderInv
  BY Members DEF Init, HolderInv
<1>2. Inv /\ HolderInv /\ [Next]_vars => HolderInv'
  BY HolderStep DEF Inv
<1>3. QED
  BY <1>1, <1>2, Invariance, PTL DEF Spec

\* What each step is for one of the timers.
LEMMA TimerStep ==
  ASSUME NEW m \in Timers, TypeOK, LockInv, HolderInv, [Next]_vars
  PROVE  [Used(m)!Next]_(Used(m)!vars)
<1> SUFFICES Used(m)!Undisturbed \/ UNCHANGED Used(m)!vars
  BY DEF Used!Next
<1> USE Members
<1> USE DEF TypeOK, LockInv, HolderInv, Goto, hardware, thermal, multitimers,
            locals, history, Tasks, TimerPlace, Used!Undisturbed, Used!vars,
            Used!Goto, Used!Tasks
<1>1. ASSUME NEW t \in {async_tcp, esp_timer}, Running(t)
      PROVE  Used(m)!Undisturbed \/ UNCHANGED Used(m)!vars
  <2>1. CASE CheckOvertemp(t) \/ EnableOutput(t) \/ DisableOutput(t)
    BY <2>1 DEF CheckOvertemp, EnableOutput, DisableOutput
  <2>2. CASE TakeAndCount(t)
    <3>1. CASE timer[t] = m
      <4>1. Used(m)!TakeAndCount(t)
        BY <2>2, <3>1 DEF TakeAndCount, Used!TakeAndCount
      <4>2. QED
        BY <4>1
    <3>2. CASE timer[t] # m
      BY <2>2, <3>2 DEF TakeAndCount
    <3>3. QED
      BY <3>1, <3>2
  <2>3. CASE PulseCallback(t) \/ ResetCallback(t)
    <3>1. CASE timer[t] = m
      <4>1. PICK next \in {"check", "disable", "return"} :
               Goto(t, "call", next)
        BY <2>3 DEF PulseCallback, ResetCallback
      <4>2. last' = [last EXCEPT ![m] = repeat_count[t]]
        BY <2>3, <3>1 DEF PulseCallback, ResetCallback
      <4>3. UNCHANGED <<armed, holder, count, timer, repeat_count>>
        BY <2>3 DEF PulseCallback, ResetCallback
      <4>4. Used(m)!Callback(t)
        BY <3>1, <4>1, <4>2, <4>3 DEF Used!Callback
      <4>5. QED
        BY <4>4
    <3>2. CASE timer[t] # m
      BY <2>3, <3>2 DEF PulseCallback, ResetCallback
    <3>3. QED
      BY <3>1, <3>2
  <2>4. CASE Return(t)
    <3>1. CASE timer[t] = m
      <4>1. Used(m)!Return(t)
        BY <2>4, <3>1 DEF Return, Used!Return
      <4>2. QED
        BY <4>1
    <3>2. CASE timer[t] # m
      BY <2>4, <3>2 DEF Return
    <3>3. QED
      BY <3>1, <3>2
  <2>5. QED
    BY <1>1, <2>1, <2>2, <2>3, <2>4 DEF Running
<1>2. ASSUME NEW k \in Timers, Expire(k)
      PROVE  Used(m)!Undisturbed \/ UNCHANGED Used(m)!vars
  <2>1. CASE k = m
    <3>1. Used(m)!Expire
      BY <1>2, <2>1 DEF Expire, Used!Expire
    <3>2. QED
      BY <3>1
  <2>2. CASE k # m
    <3>1. \A t \in {async_tcp, esp_timer} :
            /\ timer'[t] = m <=> timer[t] = m
            /\ timer[t] = m => pc'[t] = pc[t]
      BY <1>2, <2>2 DEF Expire
    <3>2. UNCHANGED <<armed[m], holder, count, repeat_count, last>>
      BY <1>2, <2>2 DEF Expire
    <3>3. UNCHANGED Used(m)!vars
      BY <3>1, <3>2
    <3>4. QED
      BY <3>3
  <2>3. QED
    BY <2>1, <2>2
<1>3. CASE trigger_oneshot \/ ClearBranch
  <2>1. UNCHANGED <<armed, holder, count, repeat_count, last>>
    BY <1>3 DEF trigger_oneshot, ClearBranch
  <2>2. timer[async_tcp] = None /\ repeat_count[async_tcp] = 0
    BY <1>3 DEF trigger_oneshot, ClearBranch
  <2>3. PICK k \in Timers \cup {None} :
          timer' = [timer EXCEPT ![async_tcp] = k]
    BY <1>3 DEF trigger_oneshot, ClearBranch
  <2>4. PICK next \in {"take", "return"} :
          /\ pc' = [pc EXCEPT ![async_tcp] = next]
          /\ k = m => next = "take"
    BY <1>3, <2>3 DEF trigger_oneshot, ClearBranch
  <2>5. CASE k = m
    <3>1. Used(m)!Start(async_tcp)
      BY <2>1, <2>2, <2>3, <2>4, <2>5 DEF Used!Start
    <3>2. QED
      BY <3>1
  <2>6. CASE k # m
    <3>1. \A t \in {async_tcp, esp_timer} :
            /\ timer'[t] = m <=> timer[t] = m
            /\ timer[t] = m => pc'[t] = pc[t]
      BY <2>2, <2>3, <2>4, <2>6
    <3>2. UNCHANGED Used(m)!vars
      BY <2>1, <3>1
    <3>3. QED
      BY <3>2
  <2>7. QED
    BY <2>5, <2>6
<1>4. CASE \/ \E new_val \in BOOLEAN : set_power_pwm_active(new_val)
           \/ clear_shutdown \/ set_temp_limit \/ ClearEvaluate
  BY <1>4 DEF set_power_pwm_active, clear_shutdown, set_temp_limit,
         ClearEvaluate
<1>5. CASE EventLoop
  BY <1>5 DEF EventLoop, FastPoll, FastSensors, SlowEvaluate,
              SlowCheck, SlowShutdown
<1>6. CASE Overcurrent
  BY <1>6 DEF Overcurrent
<1>7. CASE UNCHANGED vars
  BY <1>7 DEF vars
<1>8. QED
  BY <1>1, <1>2, <1>3, <1>4, <1>5, <1>6, <1>7 DEF Next, Command, Handler

\* Whatever the three tasks do in between, each of the two timers is used as
\* a CountedTimer: started in async_tcp, taken by one task at a time, counted
\* on and armed as the contract says (app_controller.cpp:446-487).
THEOREM TimersAreCounted ==
  ASSUME NEW m \in Timers
  PROVE  Spec => Used(m)!Spec
<1>1. Init => Used(m)!Init
  BY Members DEF Init, Tasks, TimerPlace, Used!Init, Used!Tasks
<1>2. Inv /\ HolderInv /\ [Next]_vars => [Used(m)!Next]_(Used(m)!vars)
  BY TimerStep DEF Inv
<1>3. QED
  BY <1>1, <1>2, Invariance, HolderInvariant, PTL DEF Spec, Used!Spec
=============================================================================
