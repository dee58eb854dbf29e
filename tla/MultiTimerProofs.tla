------------------------- MODULE MultiTimerProofs -------------------------
(***************************************************************************)
(* Theorems about MultiTimer, for any set of calling tasks and any number  *)
(* of repeats.                                                             *)
(*                                                                         *)
(* The argument: the mutex serialises the lambda (LockInv), so while a     *)
(* task is inside, nobody else writes _repeat_count, unless stop() does.   *)
(* Until the timer is disturbed by stop() or pause(), the counter stands   *)
(* for the number of the latest callback (CountInv), which gives the order *)
(* of the calls, and the timer is armed whenever the counter is left       *)
(* positive (ArmedInv).                                                    *)
(***************************************************************************)
EXTENDS MultiTimer, TLAPS

USE CallerAssumption, NoTaskAssumption, RequestedAssumption

\* The mutex belongs to the task inside the lambda.
LockInv ==
  \A t \in Tasks : pc[t] \in Locked <=> holder = t

\* The counter a completed call number k leaves behind.
CountAfter(k) == IF k = Requested THEN 0 ELSE k

\* Range of the counter, whatever methods are used.
RangeInv ==
  /\ count = Requested => holder # NoTask /\ pc[holder] = "rearm"
  /\ \A t \in Tasks :
       /\ pc[t] \in {"store", "rearm", "call"} =>
            repeat_count[t] \in 1 .. Requested
       /\ pc[t] = "rearm" => count \in {0, repeat_count[t]}

\* Every variable of MultiTimer keeps its type for every set of tasks and
\* every number of repeats.  With it hold the two strengthenings that the
\* later theorems need: who is inside the mutex, and which values the local
\* copies of count take (multi_timer.hpp:135-149).
THEOREM TypeCorrect == Spec => [](TypeOK /\ LockInv /\ RangeInv)
<1> DEFINE Inv == TypeOK /\ LockInv /\ RangeInv
<1>1. Init => Inv
  <2> SUFFICES ASSUME Init PROVE Inv
    OBVIOUS
  <2>1. TypeOK
    <3>1. repeat_count \in [Tasks -> 0 .. Requested + 1]
      BY DEF Init
    <3>2. pc \in [Tasks -> {"idle", "take", "reset"} \cup Locked]
      BY DEF Init
    <3>3. count \in 0 .. Requested /\ last \in 0 .. Requested
      BY DEF Init
    <3>4. QED
      BY <3>1, <3>2, <3>3 DEF Init, TypeOK
  <2>2. LockInv
    BY DEF Init, LockInv, Locked, Tasks
  <2>3. RangeInv
    BY DEF Init, RangeInv
  <2>4. QED
    BY <2>1, <2>2, <2>3
<1>2. Inv /\ [Next]_vars => Inv'
  <2> SUFFICES ASSUME TypeOK, LockInv, RangeInv, [Next]_vars
               PROVE  TypeOK' /\ LockInv' /\ RangeInv'
    OBVIOUS
  <2>1. CASE Expire
    BY <2>1 DEF Expire, Goto, TypeOK, LockInv, RangeInv, Locked, Tasks
  <2>2. ASSUME NEW t \in Callers, Method(t)
        PROVE  TypeOK' /\ LockInv' /\ RangeInv'
    <3>1. CASE StartNow(t)
      BY <3>1 DEF StartNow, Goto, TypeOK, LockInv, RangeInv, Locked, Tasks
    <3>2. CASE StartDelayed(t)
      BY <3>2 DEF StartDelayed, TypeOK, LockInv, RangeInv, Locked, Tasks
    <3>3. CASE StopTimer(t)
      BY <3>3 DEF StopTimer, Goto, TypeOK, LockInv, RangeInv, Locked, Tasks
    <3>4. CASE StopReset(t)
      BY <3>4 DEF StopReset, Goto, TypeOK, LockInv, RangeInv, Locked, Tasks
    <3>5. CASE Pause(t)
      BY <3>5 DEF Pause, TypeOK, LockInv, RangeInv, Locked, Tasks
    <3>6. CASE Resume(t)
      BY <3>6 DEF Resume, TypeOK, LockInv, RangeInv, Locked, Tasks
    <3>7. QED
      BY <2>2, <3>1, <3>2, <3>3, <3>4, <3>5, <3>6 DEF Method
  <2>3. ASSUME NEW t \in Tasks, Enter(t)
        PROVE  TypeOK' /\ LockInv' /\ RangeInv'
    BY <2>3 DEF Enter, Goto, TypeOK, LockInv, RangeInv, Locked, Tasks
  <2>4. ASSUME NEW t \in Tasks, Store(t)
        PROVE  TypeOK' /\ LockInv' /\ RangeInv'
    BY <2>4 DEF Store, Goto, TypeOK, LockInv, RangeInv, Locked, Tasks
  <2>5. ASSUME NEW t \in Tasks, Rearm(t)
        PROVE  TypeOK' /\ LockInv' /\ RangeInv'
    <3>1. armed' \in BOOLEAN
      BY <2>5 DEF Rearm, TypeOK
    <3>2. QED
      BY <2>5, <3>1 DEF Rearm, Goto, TypeOK, LockInv, RangeInv, Locked, Tasks
  <2>6. ASSUME NEW t \in Tasks, Callback(t)
        PROVE  TypeOK' /\ LockInv' /\ RangeInv'
    BY <2>6 DEF Callback, Goto, TypeOK, LockInv, RangeInv, Locked, Tasks
  <2>7. ASSUME NEW t \in Tasks, Give(t)
        PROVE  TypeOK' /\ LockInv' /\ RangeInv'
    BY <2>7 DEF Give, Goto, TypeOK, LockInv, RangeInv, Locked, Tasks
  <2>8. CASE UNCHANGED vars
    BY <2>8 DEF vars, TypeOK, LockInv, RangeInv, Tasks
  <2>9. QED
    BY <2>1, <2>2, <2>3, <2>4, <2>5, <2>6, <2>7, <2>8 DEF Next, Lambda
<1>3. QED
  BY <1>1, <1>2, PTL DEF Spec

\* For every task set and repeat count: two tasks are never inside the
\* user's callback at once (multi_timer.hpp:50-53).
THEOREM MutexHolds == Spec => []MutualExclusion
<1>1. LockInv /\ TypeOK => MutualExclusion
  BY DEF LockInv, MutualExclusion
<1>2. QED
  BY <1>1, TypeCorrect, PTL

\* For every task set, repeat count and use of the methods, stop() racing
\* with the lambda included: the callback is only called with a repeat number
\* it was attached for (multi_timer.hpp:138-142).
THEOREM NumbersInRange == Spec => []CallbackNumberInRange
<1>1. RangeInv => CallbackNumberInRange
  BY DEF RangeInv, CallbackNumberInRange
<1>2. QED
  BY <1>1, TypeCorrect, PTL

-----------------------------------------------------------------------------
(***************************************************************************)
(* As long as nobody has called stop() or pause().                         *)
(***************************************************************************)

\* The counter stands for the latest call.
CountInv ==
  /\ holder = NoTask => count = CountAfter(last)
  /\ \A t \in Tasks :
       /\ pc[t] = "store" => /\ count = CountAfter(last)
                             /\ repeat_count[t] = count + 1
       /\ pc[t] = "rearm" => /\ repeat_count[t] = CountAfter(last) + 1
                             /\ count = repeat_count[t]
       /\ pc[t] = "call" => /\ repeat_count[t] = CountAfter(last) + 1
                            /\ count = CountAfter(repeat_count[t])
       /\ pc[t] = "give" => count = CountAfter(last)

\* A counter left positive has its next repeat pending.
ArmedInv ==
  count > 0 /\ (holder = NoTask \/ \E t \in Tasks : pc[t] \in {"call", "give"})
    => armed \/ pc[EspTimer] = "take"

\* Nobody is in the middle of stop(), which would reset the counter.
UndisturbedInv ==
  ~disturbed => /\ \A t \in Tasks : pc[t] # "reset"
                /\ CountInv
                /\ ArmedInv

RoundInv == TypeOK /\ LockInv /\ RangeInv /\ UndisturbedInv

LEMMA RoundInvInit == Init => UndisturbedInv
  BY DEF Init, UndisturbedInv, CountInv, ArmedInv, CountAfter

LEMMA RoundInvStep ==
  ASSUME RoundInv, TypeOK', LockInv', RangeInv', [Next]_vars
  PROVE  UndisturbedInv'
<1> USE DEF RoundInv, UndisturbedInv, CountInv, ArmedInv, CountAfter
<1>1. CASE Expire
  BY <1>1 DEF Expire, Goto, TypeOK, LockInv, Locked, Tasks
<1>2. ASSUME NEW t \in Callers, Method(t)
      PROVE  UndisturbedInv'
  <2>1. CASE StartNow(t)
    BY <2>1 DEF StartNow, Goto, TypeOK, LockInv, Locked, Tasks
  <2>2. CASE StartDelayed(t) \/ Resume(t)
    BY <2>2 DEF StartDelayed, Resume, TypeOK
  <2>3. CASE StopTimer(t) \/ Pause(t)
    BY <2>3 DEF StopTimer, Pause
  <2>4. CASE StopReset(t)
    BY <2>4 DEF StopReset, Goto, Tasks
  <2>5. QED
    BY <1>2, <2>1, <2>2, <2>3, <2>4 DEF Method
<1>3. ASSUME NEW t \in Tasks, Enter(t)
      PROVE  UndisturbedInv'
  BY <1>3 DEF Enter, Goto, TypeOK, LockInv, Locked, Tasks
<1>4. ASSUME NEW t \in Tasks, Store(t)
      PROVE  UndisturbedInv'
  BY <1>4 DEF Store, Goto, TypeOK, LockInv, Locked, Tasks
<1>5. ASSUME NEW t \in Tasks, Rearm(t)
      PROVE  UndisturbedInv'
  <2> SUFFICES ASSUME ~disturbed'
               PROVE  /\ \A u \in Tasks : pc'[u] # "reset"
                      /\ CountInv'
                      /\ ArmedInv'
    OBVIOUS
  <2>1. (\A u \in Tasks : pc'[u] # "reset") /\ CountInv'
    BY <1>5 DEF Rearm, Goto, TypeOK, LockInv, RangeInv, Locked, Tasks
  <2>2. ArmedInv'
    BY <1>5 DEF Rearm, Goto, TypeOK, LockInv, RangeInv, Locked, Tasks
  <2>3. QED
    BY <2>1, <2>2
<1>6. ASSUME NEW t \in Tasks, Callback(t)
      PROVE  UndisturbedInv'
  BY <1>6 DEF Callback, Goto, TypeOK, LockInv, RangeInv, Locked, Tasks
<1>7. ASSUME NEW t \in Tasks, Give(t)
      PROVE  UndisturbedInv'
  BY <1>7 DEF Give, Goto, TypeOK, LockInv, Locked, Tasks
<1>8. CASE UNCHANGED vars
  BY <1>8 DEF vars
<1>9. QED
  BY <1>1, <1>2, <1>3, <1>4, <1>5, <1>6, <1>7, <1>8 DEF Next, Lambda

LEMMA RoundInvariant == Spec => []RoundInv
<1>1. Init => UndisturbedInv
  BY RoundInvInit
<1>2. RoundInv /\ TypeOK' /\ LockInv' /\ RangeInv' /\ [Next]_vars
        => UndisturbedInv'
  BY RoundInvStep
<1>3. QED
  BY <1>1, <1>2, TypeCorrect, PTL DEF Spec, RoundInv

\* For every task set and repeat count: as long as nobody stops or pauses
\* the timer, an unfinished round always has its next repeat pending
\* (multi_timer.hpp:138-142), so a one-shot pulse is never left open.
THEOREM RoundsAreContinued == Spec => []RoundNeverAbandoned
<1>1. RoundInv => RoundNeverAbandoned
  BY DEF RoundInv, UndisturbedInv, ArmedInv, RoundNeverAbandoned
<1>2. QED
  BY <1>1, RoundInvariant, PTL

\* For every task set and repeat count the timer implements the safety part
\* of RepeatCycle: the calls of the callback are numbered 1, 2, ...,
\* Requested, 1, ... without gap or repetition, although several tasks may
\* start the timer in the middle of a round, and stay in range after a stop()
\* or pause().  That rounds are finished is left to TLC.
THEOREM CallsInOrder == Spec => Cycle!Init /\ [][Cycle!Next]_(Cycle!vars)
<1>1. Init => Cycle!Init
  BY DEF Init, Cycle!Init
<1>2. RoundInv /\ [Next]_vars => [Cycle!Next]_(Cycle!vars)
  <2> SUFFICES ASSUME RoundInv, [Next]_vars
               PROVE  Cycle!Next \/ UNCHANGED Cycle!vars
    OBVIOUS
  <2> USE DEF Cycle!Next, Cycle!vars
  <2>1. ASSUME NEW t \in Tasks, Callback(t)
        PROVE  Cycle!Call \/ Cycle!CallDisturbed
    <3>1. CASE disturbed
      BY <2>1, <3>1 DEF Callback, Goto, RoundInv, RangeInv,
                        Cycle!CallDisturbed
    <3>2. CASE ~disturbed
      BY <2>1, <3>2 DEF Callback, Goto, RoundInv, UndisturbedInv, CountInv,
                        CountAfter, TypeOK, Cycle!Call
    <3>3. QED
      BY <3>1, <3>2
  <2>2. ASSUME NEW t \in Tasks, Enter(t) \/ Store(t) \/ Rearm(t) \/ Give(t)
        PROVE  UNCHANGED Cycle!vars
    BY <2>2 DEF Enter, Store, Rearm, Give
  <2>3. ASSUME NEW t \in Callers, Method(t)
        PROVE  Cycle!Disturb \/ UNCHANGED Cycle!vars
    BY <2>3 DEF Method, StartNow, StartDelayed, StopTimer, StopReset, Pause,
                Resume, Cycle!Disturb
  <2>4. Expire \/ UNCHANGED vars => UNCHANGED Cycle!vars
    BY DEF Expire, vars
  <2>5. QED
    BY <2>1, <2>2, <2>3, <2>4 DEF Next, Lambda
<1>3. QED
  BY <1>1, <1>2, RoundInvariant, PTL DEF Spec

-----------------------------------------------------------------------------
(***************************************************************************)
(* The timer as its users see it.                                          *)
(***************************************************************************)

\* What is seen from outside of a task's statements, without stop().
LEMMA CountedStep ==
  ASSUME RoundInv, [Next]_vars, ~disturbed, ~disturbed'
  PROVE  Counted!Undisturbed \/ UNCHANGED Counted!vars
<1> USE DEF RoundInv, UndisturbedInv, CountInv, TypeOK, LockInv, Locked, Goto,
            Tasks, Entered, CountedPlace, Counted!Undisturbed, Counted!vars,
            Counted!Goto, Counted!Tasks
<1>1. CASE Expire
  <2>1. Counted!Expire
    BY <1>1 DEF Expire, Counted!Expire
  <2>2. QED
    BY <2>1
<1>2. ASSUME NEW t \in Callers, Method(t)
      PROVE  Counted!Undisturbed \/ UNCHANGED Counted!vars
  <2>1. CASE StartNow(t)
    <3>1. Counted!Start(t)
      BY <2>1 DEF StartNow, Counted!Start
    <3>2. QED
      BY <3>1
  <2>2. CASE StartDelayed(t) \/ Resume(t)
    <3>1. Counted!Arm
      BY <2>2 DEF StartDelayed, Resume, Counted!Arm
    <3>2. QED
      BY <3>1
  <2>3. ~StopTimer(t) /\ ~StopReset(t) /\ ~Pause(t)
    BY DEF StopTimer, StopReset, Pause
  <2>4. QED
    BY <1>2, <2>1, <2>2, <2>3 DEF Method
<1>3. ASSUME NEW t \in Tasks, Enter(t)
      PROVE  UNCHANGED Counted!vars
  BY <1>3 DEF Enter
<1>4. ASSUME NEW t \in Tasks, Store(t)
      PROVE  UNCHANGED Counted!vars
  BY <1>4 DEF Store
<1>5. ASSUME NEW t \in Tasks, Rearm(t)
      PROVE  Counted!TakeAndCount(t)
  <2>1. holder = t /\ ~Entered(t) /\ \E u \in Tasks : pc[u] = "rearm"
    BY <1>5 DEF Rearm
  <2>2. holder' = t /\ Entered(t)' /\ \A u \in Tasks : pc'[u] # "rearm"
    BY <1>5 DEF Rearm
  <2>3. /\ count \in 1 .. Requested /\ repeat_count[t] = count
        /\ UNCHANGED repeat_count
    BY <1>5 DEF Rearm, RangeInv
  <2>4. /\ count' = IF count < Requested THEN count ELSE 0
        /\ armed' = (armed \/ count < Requested)
        /\ UNCHANGED last
    <3>1. CASE count < Requested
      <4>1. armed' = TRUE /\ count' = count /\ UNCHANGED last
        BY <1>5, <2>3, <3>1 DEF Rearm
      <4>2. QED
        BY <3>1, <4>1
    <3>2. CASE ~(count < Requested)
      BY <1>5, <2>3, <3>2 DEF Rearm
    <3>3. QED
      BY <3>1, <3>2
  <2>5. \A u \in Tasks : u # t => ~Entered(u) /\ ~Entered(u)'
    BY <1>5, <2>1, <2>2 DEF Rearm
  <2>6. Counted!Goto(t, "take", "call")
    BY <1>5 DEF Rearm
  <2>7. [u \in Tasks |-> IF Entered(u) THEN repeat_count[u] ELSE 0]'
          = [[u \in Tasks |-> IF Entered(u) THEN repeat_count[u] ELSE 0]
               EXCEPT ![t] = count]
    BY <2>2, <2>3, <2>5
  <2>8. (count - 1) + 1 = count
    BY <2>3
  <2>9. QED
    BY <2>1, <2>2, <2>4, <2>6, <2>7, <2>8 DEF Counted!TakeAndCount
<1>6. ASSUME NEW t \in Tasks, Callback(t)
      PROVE  Counted!Callback(t)
  BY <1>6 DEF Callback, Counted!Callback
<1>7. ASSUME NEW t \in Tasks, Give(t)
      PROVE  Counted!Return(t)
  BY <1>7 DEF Give, Counted!Return
<1>8. CASE UNCHANGED vars
  BY <1>8 DEF vars
<1>9. QED
  BY <1>1, <1>2, <1>3, <1>4, <1>5, <1>6, <1>7, <1>8 DEF Next, Lambda

\* For every task set and repeat count: the statements of the lambda take
\* effect in one step, the arming, as CountedTimer says, whatever starts,
\* expiries and other callbacks come in between.  It is what module
\* PowerOutput takes for granted (multi_timer.hpp:135-149).
THEOREM TimerIsCounted == Spec => ImplementsCountedTimer
<1>1. Init => Counted!Init
  BY DEF Init, Tasks, Entered, CountedPlace, Counted!Init, Counted!Tasks
<1>2. RoundInv /\ [Next]_vars => [Counted!Next]_(Counted!vars)
  <2> SUFFICES ASSUME RoundInv, [Next]_vars
               PROVE  Counted!Next \/ UNCHANGED Counted!vars
    OBVIOUS
  <2>1. disturbed \in BOOLEAN /\ disturbed' \in BOOLEAN
    BY DEF RoundInv, TypeOK, Next, vars, Lambda, Method, Expire, Enter, Store,
           Rearm, Callback, Give, StartNow, StartDelayed, StopTimer,
           StopReset, Pause, Resume
  <2>2. CASE disturbed'
    BY <2>1, <2>2 DEF Counted!Next, Counted!Disturbed
  <2>3. CASE ~disturbed /\ ~disturbed'
    BY <2>3, CountedStep DEF Counted!Next
  <2>4. disturbed => disturbed'
    BY DEF Next, vars, Lambda, Method, Expire, Enter, Store, Rearm, Callback,
           Give, StartNow, StartDelayed, StopTimer, StopReset, Pause, Resume
  <2>5. QED
    BY <2>2, <2>3, <2>4
<1>3. QED
  BY <1>1, <1>2, RoundInvariant, PTL
     DEF Spec, ImplementsCountedTimer, Counted!Spec
=============================================================================
