-------------------------- MODULE EventLoopProofs --------------------------
(***************************************************************************)
(* Theorems about what app_event_task does: EventLoop, the push, for all   *)
(* writers, fields and bounds, and SoftStart, the ramp of the duty in the  *)
(* fast tick, for all ranges and increments.                               *)
(*                                                                         *)
(* No lost wake-up: while the bit is neither set nor taken, the latest     *)
(* push and the fields read for the next one hold what was announced       *)
(* (PushInv).  Order: what is displayed, queued, pushed, read and stored   *)
(* is one chain of values that never decrease (OrderInv, QueueInv).  The   *)
(* ramp: no step goes beyond the target it has read (StepIsShort).         *)
(***************************************************************************)
EXTENDS EventLoop, SoftStart, TLAPS

USE BoundsAssumption

Places == {"wait", "fast", "slow", "changed", "read"}

StateTypes ==
  /\ state \in States /\ announced \in States
  /\ json \in States /\ sent \in States /\ shown \in States
  /\ pending \in [Writers -> {{}} \cup {{f} : f \in Fields}]

LoopTypes ==
  /\ flags \subseteq Bits /\ taken \subseteq Bits
  /\ pc \in Places
  /\ unread \subseteq Fields

QueueTypes ==
  /\ connected \in BOOLEAN
  /\ queue \in Seq(States)
  /\ Len(queue) <= MaxQueue

PushInv ==
  /\ \A f \in Fields : announced[f] <= state[f]
  /\ pc = "wait" => "state_changed" \notin taken
  /\ "state_changed" \notin flags =>
       \A f \in Fields :
         /\ pc = "read" /\ f \notin unread => announced[f] <= json[f]
         /\ "state_changed" \notin taken => announced[f] <= sent[f]

OrderInv ==
  \A f \in Fields :
    /\ shown[f] <= sent[f] /\ sent[f] <= state[f]
    /\ pc = "read" /\ f \notin unread => sent[f] <= json[f] /\ json[f] <= state[f]

QueueInv ==
  \A f \in Fields, i \in 1 .. Len(queue) :
    /\ shown[f] <= queue[i][f] /\ queue[i][f] <= sent[f]
    /\ \A j \in i .. Len(queue) : queue[i][f] <= queue[j][f]

Inv == StateTypes /\ LoopTypes /\ QueueTypes /\ PushInv /\ OrderInv /\ QueueInv
LEMMA InitInv == Init => Inv
<1> USE DEF Init, States, Initial, Bits, Places
<1>1. Init => StateTypes
  BY DEF StateTypes
<1>2. Init => LoopTypes /\ QueueTypes
  <2>1. Init => LoopTypes
    BY DEF LoopTypes
  <2>2. <<>> \in Seq(States) /\ Len(<<>>) = 0
    OBVIOUS
  <2>3. Init => connected \in BOOLEAN /\ queue = <<>>
    OBVIOUS
  <2>4. QED
    BY <2>1, <2>2, <2>3 DEF QueueTypes
<1>3. Init => PushInv /\ OrderInv /\ QueueInv
  BY DEF PushInv, OrderInv, QueueInv
<1>4. QED
  BY <1>1, <1>2, <1>3 DEF Inv

LEMMA Increment ==
  ASSUME NEW s \in States, NEW f \in Fields, s[f] < MaxChanges
  PROVE  [s EXCEPT ![f] = @ + 1] \in States
<1>1. s[f] + 1 \in 0 .. MaxChanges
  BY DEF States
<1>2. QED
  BY <1>1 DEF States

LEMMA StateStep ==
  ASSUME StateTypes, QueueTypes, [Next]_vars
  PROVE  StateTypes'
<1> USE DEF StateTypes, QueueTypes, States, Initial, writers, loop, client
<1>1. ASSUME NEW w \in Writers, NEW f \in Fields, Change(w, f)
      PROVE  StateTypes'
  <2>1. state' \in States
    BY <1>1, Increment DEF Change
  <2>2. pending' \in [Writers -> {{}} \cup {{g} : g \in Fields}]
    BY <1>1 DEF Change
  <2>3. QED
    BY <1>1, <2>1, <2>2 DEF Change
<1>2. ASSUME NEW w \in Writers, NEW f \in Fields, ChangeSilently(w, f)
      PROVE  StateTypes'
  <2>1. state' \in States
    BY <1>2, Increment DEF ChangeSilently
  <2>2. QED
    BY <1>2, <2>1 DEF ChangeSilently
<1>3. ASSUME NEW w \in Writers, SendStateChangedEvent(w)
      PROVE  StateTypes'
  BY <1>3 DEF SendStateChangedEvent
<1>4. ASSUME NEW bit \in Bits, Tick(bit)
      PROVE  StateTypes'
  BY <1>4 DEF Tick
<1>5. CASE Wait
  BY <1>5 DEF Wait
<1>6. CASE HandleFast
  <2>1. CASE UNCHANGED <<state, announced>>
    BY <1>6, <2>1 DEF HandleFast
  <2>2. ASSUME NEW f \in Fields, state[f] < MaxChanges,
               state' = [state EXCEPT ![f] = @ + 1]
        PROVE  StateTypes'
    <3>1. state' \in States
      BY <2>2, Increment
    <3>2. announced' = announced \/
            \E g \in Fields : announced' = [announced EXCEPT ![g] = state'[g]]
      BY <1>6, <2>2, <2>1 DEF HandleFast
    <3>3. announced' \in States
      BY <3>1, <3>2
    <3>4. QED
      BY <1>6, <3>1, <3>3 DEF HandleFast
  <2>3. QED
    BY <1>6, <2>1, <2>2 DEF HandleFast
<1>7. CASE HandleSlow
  BY <1>7 DEF HandleSlow, BeginPush
<1>8. CASE HandleChanged
  BY <1>8 DEF HandleChanged, BeginPush
<1>9. ASSUME NEW f \in Fields, ReadField(f)
      PROVE  StateTypes'
  BY <1>9 DEF ReadField
<1>10. CASE Send
  <2>1. Initial \in States
    OBVIOUS
  <2> HIDE DEF States, Initial
  <2>2. QED
    BY <1>10, <2>1 DEF Send, EndPush
<1>11. CASE Receive
  <2>1. shown' \in States
    BY <1>11 DEF Receive
  <2> HIDE DEF States
  <2>2. QED
    BY <1>11, <2>1 DEF Receive
<1>12. CASE Connect
  BY <1>12 DEF Connect
<1>13. CASE Disconnect
  BY <1>13 DEF Disconnect
<1>14. CASE UNCHANGED vars
  BY <1>14 DEF vars
<1>15. QED
  BY <1>1, <1>2, <1>3, <1>4, <1>5, <1>6, <1>7, <1>8, <1>9,
     <1>10, <1>11, <1>12, <1>13, <1>14
     DEF Next, Write, Push, Bits

LEMMA LoopStep ==
  ASSUME LoopTypes, [Next]_vars
  PROVE  LoopTypes'
<1> USE DEF LoopTypes, Places, Bits, writers, loop, client
<1>1. ASSUME NEW w \in Writers, NEW f \in Fields, Change(w, f)
      PROVE  LoopTypes'
  BY <1>1 DEF Change
<1>2. ASSUME NEW w \in Writers, NEW f \in Fields, ChangeSilently(w, f)
      PROVE  LoopTypes'
  BY <1>2 DEF ChangeSilently
<1>3. ASSUME NEW w \in Writers, SendStateChangedEvent(w)
      PROVE  LoopTypes'
  BY <1>3 DEF SendStateChangedEvent
<1>4. ASSUME NEW bit \in Bits, Tick(bit)
      PROVE  LoopTypes'
  BY <1>4 DEF Tick
<1>5. CASE Wait
  BY <1>5 DEF Wait
<1>6. CASE HandleFast
  BY <1>6 DEF HandleFast
<1>7. CASE HandleSlow
  BY <1>7 DEF HandleSlow, BeginPush
<1>8. CASE HandleChanged
  BY <1>8 DEF HandleChanged, BeginPush
<1>9. ASSUME NEW f \in Fields, ReadField(f)
      PROVE  LoopTypes'
  BY <1>9 DEF ReadField
<1>10. CASE Send
  BY <1>10 DEF Send, EndPush
<1>11. CASE Receive
  BY <1>11 DEF Receive
<1>12. CASE Connect
  BY <1>12 DEF Connect
<1>13. CASE Disconnect
  BY <1>13 DEF Disconnect
<1>14. CASE UNCHANGED vars
  BY <1>14 DEF vars
<1>15. QED
  BY <1>1, <1>2, <1>3, <1>4, <1>5, <1>6, <1>7, <1>8, <1>9,
     <1>10, <1>11, <1>12, <1>13, <1>14
     DEF Next, Write, Push, Bits

LEMMA QueueTypeStep ==
  ASSUME StateTypes, QueueTypes, [Next]_vars
  PROVE  QueueTypes'
<1> USE DEF StateTypes, QueueTypes, writers, loop, client
<1>1. ASSUME NEW w \in Writers, NEW f \in Fields, Change(w, f)
      PROVE  QueueTypes'
  BY <1>1 DEF Change
<1>2. ASSUME NEW w \in Writers, NEW f \in Fields, ChangeSilently(w, f)
      PROVE  QueueTypes'
  BY <1>2 DEF ChangeSilently
<1>3. ASSUME NEW w \in Writers, SendStateChangedEvent(w)
      PROVE  QueueTypes'
  BY <1>3 DEF SendStateChangedEvent
<1>4. ASSUME NEW bit \in Bits, Tick(bit)
      PROVE  QueueTypes'
  BY <1>4 DEF Tick
<1>5. CASE Wait
  BY <1>5 DEF Wait
<1>6. CASE HandleFast
  BY <1>6 DEF HandleFast
<1>7. CASE HandleSlow
  BY <1>7 DEF HandleSlow, BeginPush
<1>8. CASE HandleChanged
  BY <1>8 DEF HandleChanged, BeginPush
<1>9. ASSUME NEW f \in Fields, ReadField(f)
      PROVE  QueueTypes'
  BY <1>9 DEF ReadField
<1>10. CASE Send
  <2>1. CASE queue' = Append(queue, json) /\ Len(queue) < MaxQueue
    <3>1. queue' \in Seq(States) /\ Len(queue') = Len(queue) + 1
      BY <2>1
    <3>2. QED
      BY <1>10, <2>1, <3>1 DEF Send
  <2>2. CASE queue' = queue
    BY <1>10, <2>2 DEF Send
  <2>3. QED
    BY <1>10, <2>1, <2>2 DEF Send
<1>11. CASE Receive
  BY <1>11 DEF Receive
<1>12. CASE Connect
  BY <1>12 DEF Connect
<1>13. CASE Disconnect
  <2>1. queue' = <<>> /\ connected' \in BOOLEAN
    BY <1>13 DEF Disconnect
  <2>2. queue' \in Seq(States) /\ Len(queue') = 0
    BY <2>1
  <2>3. QED
    BY <2>1, <2>2
<1>14. CASE UNCHANGED vars
  BY <1>14 DEF vars
<1>15. QED
  BY <1>1, <1>2, <1>3, <1>4, <1>5, <1>6, <1>7, <1>8, <1>9,
     <1>10, <1>11, <1>12, <1>13, <1>14
     DEF Next, Write, Push, Bits

LEMMA PushStep ==
  ASSUME StateTypes, LoopTypes, PushInv, [Next]_vars
  PROVE  PushInv'
<1> USE DEF StateTypes, LoopTypes, States, Initial, Places, Bits, PushInv,
            writers, loop, client
<1>1. ASSUME NEW w \in Writers, NEW f \in Fields, Change(w, f)
      PROVE  PushInv'
  BY <1>1 DEF Change
<1>2. ASSUME NEW w \in Writers, NEW f \in Fields, ChangeSilently(w, f)
      PROVE  PushInv'
  BY <1>2 DEF ChangeSilently
<1>3. ASSUME NEW w \in Writers, SendStateChangedEvent(w)
      PROVE  PushInv'
  BY <1>3 DEF SendStateChangedEvent
<1>4. ASSUME NEW bit \in Bits, Tick(bit)
      PROVE  PushInv'
  BY <1>4 DEF Tick
<1>5. CASE Wait
  BY <1>5 DEF Wait
<1>6. CASE HandleFast
  BY <1>6 DEF HandleFast
<1>7. CASE HandleSlow
  BY <1>7 DEF HandleSlow, BeginPush
<1>8. CASE HandleChanged
  BY <1>8 DEF HandleChanged, BeginPush
<1>9. ASSUME NEW f \in Fields, ReadField(f)
      PROVE  PushInv'
  BY <1>9 DEF ReadField
<1>10. CASE Send
  BY <1>10 DEF Send, EndPush
<1>11. CASE Receive
  BY <1>11 DEF Receive
<1>12. CASE Connect
  BY <1>12 DEF Connect
<1>13. CASE Disconnect
  BY <1>13 DEF Disconnect
<1>14. CASE UNCHANGED vars
  BY <1>14 DEF vars
<1>15. QED
  BY <1>1, <1>2, <1>3, <1>4, <1>5, <1>6, <1>7, <1>8, <1>9,
     <1>10, <1>11, <1>12, <1>13, <1>14
     DEF Next, Write, Push, Bits

LEMMA OrderStep ==
  ASSUME StateTypes, LoopTypes, QueueTypes, OrderInv, QueueInv, [Next]_vars
  PROVE  OrderInv'
<1> USE DEF StateTypes, LoopTypes, QueueTypes, States, Initial, Places,
            OrderInv, QueueInv, writers, loop, client
<1>1. ASSUME NEW w \in Writers, NEW f \in Fields, Change(w, f)
      PROVE  OrderInv'
  BY <1>1 DEF Change
<1>2. ASSUME NEW w \in Writers, NEW f \in Fields, ChangeSilently(w, f)
      PROVE  OrderInv'
  BY <1>2 DEF ChangeSilently
<1>3. ASSUME NEW w \in Writers, SendStateChangedEvent(w)
      PROVE  OrderInv'
  BY <1>3 DEF SendStateChangedEvent
<1>4. ASSUME NEW bit \in Bits, Tick(bit)
      PROVE  OrderInv'
  BY <1>4 DEF Tick
<1>5. CASE Wait
  BY <1>5 DEF Wait
<1>6. CASE HandleFast
  <2>1. /\ UNCHANGED <<unread, json, sent, shown>>
        /\ pc = "fast" /\ pc' = "slow"
    BY <1>6 DEF HandleFast
  <2>2. CASE UNCHANGED state
    BY <2>1, <2>2
  <2>3. ASSUME NEW g \in Fields, state' = [state EXCEPT ![g] = @ + 1]
        PROVE  OrderInv'
    <3>1. \A f \in Fields : state[f] <= state'[f]
      BY <2>3
    <3>2. \A f \in Fields : state'[f] \in Nat
      BY <2>3
    <3>3. QED
      BY <2>1, <3>1, <3>2
  <2>4. QED
    BY <1>6, <2>2, <2>3 DEF HandleFast
<1>7. CASE HandleSlow
  BY <1>7 DEF HandleSlow, BeginPush
<1>8. CASE HandleChanged
  BY <1>8 DEF HandleChanged, BeginPush
<1>9. ASSUME NEW f \in Fields, ReadField(f)
      PROVE  OrderInv'
  BY <1>9 DEF ReadField
<1>10. CASE Send
  BY <1>10 DEF Send, EndPush
<1>11. CASE Receive
  <2>1. 1 \in 1 .. Len(queue)
    BY <1>11 DEF Receive
  <2>2. \A f \in Fields : queue[1][f] <= sent[f]
    BY <2>1
  <2>3. shown' = queue[1] /\ UNCHANGED <<state, sent, json, pc, unread>>
    BY <1>11 DEF Receive
  <2>4. QED
    BY <2>2, <2>3
<1>12. CASE Connect
  BY <1>12 DEF Connect
<1>13. CASE Disconnect
  BY <1>13 DEF Disconnect
<1>14. CASE UNCHANGED vars
  BY <1>14 DEF vars
<1>15. QED
  BY <1>1, <1>2, <1>3, <1>4, <1>5, <1>6, <1>7, <1>8, <1>9,
     <1>10, <1>11, <1>12, <1>13, <1>14
     DEF Next, Write, Push, Bits

LEMMA QueueStep ==
  ASSUME StateTypes, QueueTypes, OrderInv, QueueInv, [Next]_vars
  PROVE  QueueInv'
<1> USE DEF StateTypes, QueueTypes, States, OrderInv, QueueInv, writers, loop,
            client
<1>1. ASSUME NEW w \in Writers, NEW f \in Fields, Change(w, f)
      PROVE  QueueInv'
  BY <1>1 DEF Change
<1>2. ASSUME NEW w \in Writers, NEW f \in Fields, ChangeSilently(w, f)
      PROVE  QueueInv'
  BY <1>2 DEF ChangeSilently
<1>3. ASSUME NEW w \in Writers, SendStateChangedEvent(w)
      PROVE  QueueInv'
  BY <1>3 DEF SendStateChangedEvent
<1>4. ASSUME NEW bit \in Bits, Tick(bit)
      PROVE  QueueInv'
  BY <1>4 DEF Tick
<1>5. CASE Wait
  BY <1>5 DEF Wait
<1>6. CASE HandleFast
  BY <1>6 DEF HandleFast
<1>7. CASE HandleSlow
  BY <1>7 DEF HandleSlow, BeginPush
<1>8. CASE HandleChanged
  BY <1>8 DEF HandleChanged, BeginPush
<1>9. ASSUME NEW f \in Fields, ReadField(f)
      PROVE  QueueInv'
  BY <1>9 DEF ReadField
<1>10. CASE Send
  <2>1. sent' = json /\ UNCHANGED shown
    BY <1>10 DEF Send
  <2>2. \A f \in Fields : sent[f] <= json[f]
    BY <1>10 DEF Send
  <2>3. CASE queue' = queue
    BY <2>1, <2>2, <2>3
  <2>4. CASE queue' = Append(queue, json)
    <3>1. /\ Len(queue') = Len(queue) + 1
          /\ queue'[Len(queue) + 1] = json
          /\ \A i \in 1 .. Len(queue) : queue'[i] = queue[i]
      BY <2>4
    <3>2. ASSUME NEW f \in Fields, NEW i \in 1 .. Len(queue'),
                 NEW j \in i .. Len(queue')
          PROVE  /\ shown[f] <= queue'[i][f] /\ queue'[i][f] <= json[f]
                 /\ queue'[i][f] <= queue'[j][f]
      <4>1. CASE i = Len(queue) + 1
        <5>1. j = i
          BY <3>1, <4>1
        <5>2. QED
          BY <2>2, <3>1, <4>1, <5>1
      <4>2. CASE i \in 1 .. Len(queue)
        <5>1. /\ queue'[i] = queue[i]
              /\ shown[f] <= queue[i][f] /\ queue[i][f] <= json[f]
          BY <2>2, <3>1, <4>2
        <5>2. CASE j = Len(queue) + 1
          BY <3>1, <5>1, <5>2
        <5>3. CASE j \in i .. Len(queue)
          <6>1. queue'[j] = queue[j]
            BY <3>1, <4>2, <5>3
          <6>2. queue[i][f] <= queue[j][f]
            BY <4>2, <5>3
          <6>3. QED
            BY <5>1, <6>1, <6>2
        <5>4. j \in i .. Len(queue) \/ j = Len(queue) + 1
          BY <3>1, <4>2
        <5>5. QED
          BY <5>2, <5>3, <5>4
      <4>3. QED
        BY <3>1, <4>1, <4>2
    <3>3. QED
      BY <2>1, <3>2
  <2>5. QED
    BY <1>10, <2>3, <2>4 DEF Send
<1>11. CASE Receive
  <2>1. /\ shown' = queue[1] /\ sent' = sent
        /\ Len(queue') = Len(queue) - 1 /\ Len(queue) >= 1
        /\ \A i \in 1 .. Len(queue') : queue'[i] = queue[i + 1]
    BY <1>11 DEF Receive
  <2>2. ASSUME NEW f \in Fields, NEW i \in 1 .. Len(queue')
        PROVE  queue[1][f] <= queue'[i][f] /\ queue'[i][f] <= sent[f]
    <3>1. i + 1 \in 1 .. Len(queue)
      BY <2>1
    <3>2. /\ queue[1][f] <= queue[i + 1][f]
          /\ queue[i + 1][f] <= sent[f]
      BY <2>1, <3>1
    <3>3. QED
      BY <2>1, <3>2
  <2>3. ASSUME NEW f \in Fields, NEW i \in 1 .. Len(queue'),
               NEW j \in i .. Len(queue')
        PROVE  queue'[i][f] <= queue'[j][f]
    <3>1. i + 1 \in 1 .. Len(queue) /\ j + 1 \in i + 1 .. Len(queue)
          /\ j \in 1 .. Len(queue')
      BY <2>1
    <3>2. QED
      BY <2>1, <3>1
  <2>4. QED
    BY <2>1, <2>2, <2>3
<1>12. CASE Connect
  BY <1>12 DEF Connect
<1>13. CASE Disconnect
  BY <1>13 DEF Disconnect
<1>14. CASE UNCHANGED vars
  BY <1>14 DEF vars
<1>15. QED
  BY <1>1, <1>2, <1>3, <1>4, <1>5, <1>6, <1>7, <1>8, <1>9,
     <1>10, <1>11, <1>12, <1>13, <1>14
     DEF Next, Write, Push, Bits

LEMMA Invariant == Spec => []Inv
<1>1. Inv /\ [Next]_vars => Inv'
  BY StateStep, LoopStep, QueueTypeStep, PushStep, OrderStep, QueueStep DEF Inv
<1>2. QED
  BY InitInv, <1>1, PTL DEF Spec

\* Every variable keeps its type and the queue its limit, for any number of
\* writers, fields and changes (app_controller.cpp:507-573).
THEOREM LoopTypeCorrect == Spec => []TypeOK
<1>1. StateTypes => {state, announced, json, sent, shown} \subseteq States
  BY DEF StateTypes
<1>2. QueueTypes => Range(queue) \subseteq States
  BY DEF QueueTypes, Range
<1>3. Inv => TypeOK
  BY <1>1, <1>2 DEF Inv, StateTypes, LoopTypes, QueueTypes, TypeOK, Places
<1>4. QED
  BY Invariant, <1>3, PTL

\* No wake-up is lost: when the loop waits and its bit is not set, everything
\* announced has been pushed, for any number of writers that announce at any
\* point of a round (app_controller.cpp:507-520, 567-569).
THEOREM NoLostWakeUp == Spec => []AnnouncedIsPushed
<1>1. Inv => AnnouncedIsPushed
  <2> SUFFICES ASSUME Inv, pc = "wait", "state_changed" \notin flags,
                      NEW f \in Fields
               PROVE  sent[f] >= announced[f]
    BY DEF AnnouncedIsPushed
  <2>1. announced[f] <= sent[f]
    BY DEF Inv, PushInv
  <2>2. QED
    BY <2>1 DEF Inv, StateTypes, States
<1>2. QED
  BY Invariant, <1>1, PTL

\* The display never goes back, for queues of any length, dropped messages and
\* snapshots that are mixed with changes (app_controller.cpp:567-573).
THEOREM DisplayInOrder == Spec => NeverBackwards
<1>1. Inv /\ [Next]_vars => [\A f \in Fields : shown'[f] >= shown[f]]_vars
  <2> SUFFICES ASSUME Inv, Next
               PROVE  \A f \in Fields : shown'[f] >= shown[f]
    OBVIOUS
  <2>1. CASE Receive
    <3>1. shown' = queue[1] /\ 1 \in 1 .. Len(queue)
      BY <2>1 DEF Receive, Inv, QueueTypes
    <3>2. queue[1] \in States /\ shown \in States
      BY <3>1 DEF Inv, QueueTypes, StateTypes
    <3>3. \A f \in Fields : shown[f] <= queue[1][f]
      BY <3>1 DEF Inv, QueueInv
    <3>4. QED
      BY <3>1, <3>2, <3>3 DEF States
  <2>2. CASE ~Receive
    <3>1. UNCHANGED shown
      BY <2>2 DEF Next, Write, Push, Change, ChangeSilently, Tick, Wait,
           SendStateChangedEvent, HandleFast, HandleSlow, HandleChanged,
           BeginPush, ReadField, Send, Connect, Disconnect, loop, client,
           writers
    <3>2. QED
      BY <3>1 DEF Inv, StateTypes, States
  <2>3. QED
    BY <2>1, <2>2
<1>2. QED
  BY Invariant, <1>1, PTL DEF Spec, NeverBackwards
-----------------------------------------------------------------------------
(***************************************************************************)
(* The ramp in the fast tick.  What a tick adds goes towards the target it *)
(* has read and is one increment at most.  It is added to the value the    *)
(* difference was taken from, then the sum lies between that value and the *)
(* target, or to a duty a handler has set since, which is in the range.    *)
(***************************************************************************)
RampTypes ==
  /\ setpoint_throttling_enabled \in BOOLEAN /\ backwards \in BOOLEAN
  /\ duty_target \in Duties /\ x_target \in Duties
  /\ duty_increment \in Increments /\ x_increment \in Increments
  /\ ps_duty \in Int /\ pwm_duty \in Int
  /\ dx \in Int /\ x \in Int /\ n \in Int
  /\ ramp_pc \in {"idle", "load", "reload", "store", "argument", "set"}

\* What holds until a negative rate is set.
RampForwards ==
  /\ duty_increment >= 0 /\ x_increment >= 0
  /\ ps_duty \in NearDuties /\ pwm_duty \in NearDuties
  /\ n \in NearDuties /\ x \in NearDuties
  /\ ramp_pc = "reload" => /\ x + dx \in Duties
                           /\ ps_duty = x \/ ps_duty \in Duties
  /\ ramp_pc = "store" => x + dx \in Duties \/ x \in Duties

RampInv == RampTypes /\ (~backwards => RampForwards)

\* throttle_value adds no more than is left, towards the target, and no more
\* than an increment.
LEMMA StepIsShort ==
  ASSUME NEW left \in Int, NEW increment \in Nat
  PROVE  /\ Step(left, increment) \in Int
         /\ -increment <= Step(left, increment)
         /\ Step(left, increment) <= increment
         /\ left >= 0 => 0 <= Step(left, increment)
                           /\ Step(left, increment) <= left
         /\ left <= 0 => left <= Step(left, increment)
                           /\ Step(left, increment) <= 0
  BY DEF Step, Smaller, Larger

\* The bound of the model takes no value further out.
LEMMA CappedStaysNear ==
  ASSUME NEW v \in Int
  PROVE  Capped(v) \in Int /\ (v \in NearDuties => Capped(v) \in NearDuties)
  BY DutyAssumption, IncrementsAssumption
     DEF Capped, Smaller, Larger, NearDuties

\* The sum throttle_value stores.
LEMMA SumIsNear ==
  ASSUME NEW from \in NearDuties, NEW left \in Int,
         NEW increment \in Increments, increment >= 0,
         from + left \in Duties \/ from \in Duties
  PROVE  from + Step(left, increment) \in NearDuties
<1>1. /\ increment \in Nat /\ increment <= MaxIncrement
      /\ from \in Int /\ -MaxIncrement <= from
      /\ from <= MaxDuty + MaxIncrement
      /\ MaxDuty \in Nat /\ MaxIncrement \in Nat
  BY DutyAssumption, IncrementsAssumption DEF Increments, NearDuties
<1> DEFINE added == Step(left, increment)
<1>2. /\ added \in Int /\ -increment <= added /\ added <= increment
      /\ left >= 0 => 0 <= added /\ added <= left
      /\ left <= 0 => left <= added /\ added <= 0
  BY <1>1, StepIsShort
<1> HIDE DEF added
<1>3. ASSUME from \in Duties
      PROVE  from + added \in NearDuties
  BY <1>1, <1>2, <1>3 DEF Duties, NearDuties
<1>4. ASSUME from + left \in Duties
      PROVE  from + added \in NearDuties
  BY <1>1, <1>2, <1>4 DEF Duties, NearDuties
<1>5. from + added \in NearDuties
  BY <1>3, <1>4
<1>6. QED
  BY <1>5 DEF added

LEMMA RampSets ==
  /\ 0 \in Duties /\ Duties \subseteq Int /\ InitDuty \in Duties
  /\ Duties \subseteq NearDuties /\ NearDuties \subseteq Int
  /\ 0 \in Increments /\ Increments \subseteq Int
  BY DutyAssumption, IncrementsAssumption DEF Duties, NearDuties, Increments

LEMMA RampInitInv ==
  ASSUME RampInit
  PROVE  RampInv
<1>1. ps_duty \in Duties /\ pwm_duty = ps_duty
  BY RampSets DEF RampInit
<1>2. backwards \in BOOLEAN /\ (backwards <=> duty_increment < 0)
  <2>1. backwards = (duty_increment < 0)
    BY DEF RampInit
  <2>2. (duty_increment < 0) \in BOOLEAN
    BY SMT
  <2>3. QED
    BY <2>1, <2>2, Zenon
<1>3. RampTypes
  BY <1>1, <1>2, RampSets DEF RampInit, RampTypes
<1>4. ~backwards => RampForwards
  BY <1>1, <1>2, <1>3, RampSets DEF RampInit, RampForwards, RampTypes
<1>5. QED
  BY <1>3, <1>4 DEF RampInv

LEMMA RampStep ==
  ASSUME RampInv, [RampNext]_rampVars
  PROVE  RampInv'
<1> USE RampSets DEF RampInv, RampTypes, RampForwards,
            settings, hardware, tick
<1>1. ASSUME NEW new_val \in BOOLEAN,
             set_setpoint_throttling_enabled(new_val)
      PROVE  RampInv'
  BY <1>1 DEF set_setpoint_throttling_enabled
<1>2. ASSUME NEW d \in Duties, set_duty_percent(d)
      PROVE  RampInv'
  BY <1>2 DEF set_duty_percent
<1>3. ASSUME NEW i \in Increments, set_duty_changerate_percent_sec(i)
      PROVE  RampInv'
  <2>1. backwards' \in BOOLEAN /\ (backwards' <=> backwards \/ i < 0)
    BY <1>3, Zenon DEF set_duty_changerate_percent_sec
  <2>2. QED
    BY <1>3, <2>1 DEF set_duty_changerate_percent_sec
<1>4. CASE set_power_pwm_active
  BY <1>4 DEF set_power_pwm_active
<1>5. CASE TickBegin
  BY <1>5 DEF TickBegin, Goto
<1>6. CASE TickLoad
  BY <1>6 DEF TickLoad, Goto
<1>7. CASE TickReload
  BY <1>7 DEF TickReload, Goto
<1>8. CASE TickStore
  <2> DEFINE sum == x + Step(dx, x_increment)
  <2>1. sum \in Int
    BY DEF Step, Smaller, Larger
  <2>2. ~backwards => sum \in NearDuties
    <3>1. ramp_pc = "store"
      BY <1>8 DEF TickStore, Goto
    <3>2. QED
      BY <3>1, SumIsNear
  <2>3. /\ ps_duty' = Capped(sum) /\ ramp_pc' = "argument"
        /\ x_increment' = 0 /\ dx' = 0 /\ x' = 0
        /\ UNCHANGED <<settings, pwm_duty, x_target, n>>
    BY <1>8 DEF TickStore, Goto
  <2> HIDE DEF sum
  <2>4. ps_duty' \in Int /\ (~backwards => ps_duty' \in NearDuties)
    BY <2>1, <2>2, <2>3, CappedStaysNear
  <2>5. QED
    BY <2>3, <2>4
<1>9. CASE TickArgument
  BY <1>9 DEF TickArgument, Goto
<1>10. CASE TickSet
  BY <1>10 DEF TickSet, Goto
<1>11. CASE UNCHANGED rampVars
  BY <1>11 DEF rampVars
<1>12. QED
  BY <1>1, <1>2, <1>3, <1>4, <1>5, <1>6, <1>7, <1>8, <1>9, <1>10, <1>11
     DEF RampNext, Command, FastTick

\* No sequence of ticks and handlers takes the setpoint or the hardware's duty
\* more than one increment out of the range of the targets, wherever handlers
\* set duty, target and rate between the two reads and the store of
\* throttle_value, until a negative rate is set (app_controller.cpp:537-543,
\* 589-602).
THEOREM RampStaysInRange == RampSpec => []RampTypeOK
<1>1. RampInv /\ [RampNext]_rampVars => RampInv'
  BY RampStep
<1>2. ASSUME RampTypes
      PROVE  /\ {setpoint_throttling_enabled, backwards} \subseteq BOOLEAN
             /\ {duty_target, x_target} \subseteq Duties
             /\ {duty_increment, x_increment} \subseteq Increments
             /\ {ps_duty, pwm_duty, dx, x, n} \subseteq Int
  <2>1. {setpoint_throttling_enabled, backwards} \subseteq BOOLEAN
    BY <1>2, Zenon DEF RampTypes
  <2>2. QED
    BY <1>2, <2>1 DEF RampTypes
<1>3. RampInv => RampTypeOK
  BY <1>2 DEF RampInv, RampTypes, RampForwards, RampTypeOK
<1>4. QED
  BY RampInitInv, <1>1, <1>3, PTL DEF RampSpec
=============================================================================
