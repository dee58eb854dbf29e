--------------------------- MODULE ApiStoreProofs ---------------------------
(***************************************************************************)
(* Theorems about ApiStore, for any number of requests and timers.         *)
(*                                                                         *)
(* The argument: the request in the slot is newer than the one sent last,  *)
(* and there is one only while the rate limit is active (SlotInv); so the  *)
(* requests are sent in their order.  Until two of them are on the network *)
(* together, the one that is there is the one sent last, and newer than    *)
(* what the device has executed (NetworkInv); so the device keeps their    *)
(* order, too, and each step is one of RemoteControl.                      *)
(***************************************************************************)
EXTENDS ApiStore, TLAPS

USE RequestsAssumption, MaxTimersAssumption

\* TypeOK, variable by variable.
Numbers ==
  /\ issued \in 0 .. MaxRequests /\ pending \in 0 .. MaxRequests
  /\ last_sent \in 0 .. MaxRequests /\ device \in 0 .. MaxRequests
  /\ fetches \in 0 .. MaxRequests
  /\ in_flight \subseteq 1 .. MaxRequests

Flags ==
  /\ rate_limit_active \in BOOLEAN /\ disturbed \in BOOLEAN
  /\ timers = IF rate_limit_active THEN 1 ELSE 0

\* The slot and the requests sent so far.
SlotInv ==
  /\ last_sent <= issued /\ pending <= issued /\ device <= last_sent
  /\ fetches <= last_sent
  /\ pending # None => rate_limit_active /\ pending > last_sent
  /\ \A request \in in_flight : request <= last_sent

\* The network while it is not disturbed.
NetworkInv ==
  ~disturbed => \A request \in in_flight : request = last_sent /\ request > device

CommandsInv == Numbers /\ Flags /\ SlotInv /\ NetworkInv

LEMMA TypesSuffice == Numbers /\ Flags => TypeOK
<1> SUFFICES ASSUME Numbers, Flags PROVE TypeOK
  OBVIOUS
<1>1. {issued, pending, last_sent, device} \subseteq Requests \cup {None}
  BY DEF Numbers, Requests, None
<1>2. {rate_limit_active, disturbed} \subseteq BOOLEAN
  BY Zenon DEF Flags
<1>3. QED
  BY <1>1, <1>2 DEF Numbers, Flags, TypeOK, Requests

LEMMA CommandsInit == Init => CommandsInv
<1> SUFFICES ASSUME Init PROVE CommandsInv
  OBVIOUS
<1>1. Numbers
  BY DEF Init, Numbers, None
<1>2. Flags
  BY DEF Init, Flags
<1>3. SlotInv /\ NetworkInv
  BY DEF Init, SlotInv, NetworkInv, None
<1>4. QED
  BY <1>1, <1>2, <1>3 DEF CommandsInv

\* A fetch of a request newer than the one before keeps the network's part.
LEMMA FetchKeeps ==
  ASSUME NEW request \in 1 .. MaxRequests, NEW running, Numbers, Flags, SlotInv,
         NetworkInv, Fetch(request, running), request > last_sent,
         running = 0, device' = device
  PROVE  /\ Flags' /\ NetworkInv'
         /\ last_sent' = request /\ in_flight' \subseteq 1 .. MaxRequests
         /\ \A r \in in_flight' : r <= request
         /\ fetches' = fetches + 1 /\ rate_limit_active'
<1>1. Flags'
  <2>1. timers' = 1 /\ rate_limit_active' = TRUE
    BY DEF Fetch
  <2>2. disturbed' \in BOOLEAN
    BY Zenon DEF Fetch
  <2>3. QED
    BY <2>1, <2>2 DEF Flags
<1>2. NetworkInv'
  <2> SUFFICES ASSUME ~disturbed', NEW r \in in_flight'
               PROVE  r = last_sent' /\ r > device'
    BY DEF NetworkInv
  <2>1. in_flight = {}
    BY Zenon DEF Fetch
  <2>2. r = request
    BY <2>1 DEF Fetch
  <2>3. QED
    BY <2>2 DEF Fetch, Numbers, SlotInv
<1>3. QED
  BY <1>1, <1>2 DEF Fetch, Numbers, SlotInv

\* The invariant of the command path is kept by each of its steps, and what
\* is sent is newer than what was sent before.
LEMMA CommandsStep ==
  ASSUME CommandsInv, [Next]_vars
  PROVE  CommandsInv' /\ (fetches' # fetches => last_sent' > last_sent)
<1> USE DEF CommandsInv
<1>1. CASE SendCmd
  <2>1. issued' = issued + 1 /\ issued' \in 1 .. MaxRequests /\ device' = device
    BY <1>1 DEF SendCmd, Numbers
  <2>2. CASE rate_limit_active
    <3>1. /\ pending' = issued'
          /\ UNCHANGED <<rate_limit_active, timers, last_sent, fetches,
                         in_flight, disturbed>>
      BY <1>1, <2>2 DEF SendCmd
    <3>2. Numbers' /\ Flags' /\ NetworkInv'
      BY <2>1, <3>1 DEF Numbers, Flags, NetworkInv
    <3>3. SlotInv'
      BY <2>1, <2>2, <3>1 DEF SlotInv, Numbers, None
    <3>4. QED
      BY <3>1, <3>2, <3>3
  <2>3. CASE ~rate_limit_active
    <3>1. Fetch(issued', timers) /\ pending' = pending
      BY <1>1, <2>3 DEF SendCmd
    <3>2. timers = 0 /\ issued' > last_sent /\ pending = None
      BY <2>1, <2>3 DEF Flags, SlotInv, Numbers
    <3>3. /\ Flags' /\ NetworkInv'
          /\ last_sent' = issued' /\ in_flight' \subseteq 1 .. MaxRequests
          /\ \A r \in in_flight' : r <= issued'
          /\ fetches' = fetches + 1
      BY <2>1, <3>1, <3>2, FetchKeeps
    <3>4. Numbers' /\ SlotInv'
      BY <2>1, <3>1, <3>2, <3>3 DEF Numbers, SlotInv, None
    <3>5. QED
      BY <3>2, <3>3, <3>4
  <2>4. QED
    BY <2>2, <2>3
<1>2. CASE TimerExpires
  <2>1. issued' = issued /\ device' = device /\ timers = 1
    BY <1>2 DEF TimerExpires, Flags
  <2>2. CASE pending # None
    <3>1. Fetch(pending, 0) /\ pending' = None
      BY <1>2, <2>1, <2>2 DEF TimerExpires
    <3>2. pending \in 1 .. MaxRequests /\ pending > last_sent
      BY <2>2 DEF Numbers, SlotInv, None
    <3>3. /\ Flags' /\ NetworkInv'
          /\ last_sent' = pending /\ in_flight' \subseteq 1 .. MaxRequests
          /\ \A r \in in_flight' : r <= pending
          /\ fetches' = fetches + 1
      BY <2>1, <3>1, <3>2, FetchKeeps
    <3>4. Numbers' /\ SlotInv'
      BY <2>1, <3>1, <3>2, <3>3 DEF Numbers, SlotInv, None
    <3>5. QED
      BY <3>2, <3>3, <3>4
  <2>3. CASE pending = None
    <3>1. /\ rate_limit_active' = FALSE /\ timers' = 0
          /\ UNCHANGED <<pending, last_sent, fetches, in_flight, disturbed>>
      BY <1>2, <2>1, <2>3 DEF TimerExpires
    <3>2. Numbers' /\ Flags' /\ NetworkInv'
      BY <2>1, <3>1 DEF Numbers, Flags, NetworkInv
    <3>3. SlotInv'
      BY <2>1, <2>3, <3>1 DEF SlotInv
    <3>4. QED
      BY <3>1, <3>2, <3>3
  <2>4. QED
    BY <2>2, <2>3
<1>3. ASSUME NEW request \in Requests, Execute(request) \/ Fail(request)
      PROVE  CommandsInv' /\ fetches' = fetches
  <2>1. /\ UNCHANGED <<issued, generator, last_sent, fetches>>
        /\ in_flight' \subseteq in_flight /\ request \in in_flight
        /\ \/ device' = request /\ disturbed' = disturbed
           \/ device' = device /\ disturbed' = TRUE
        /\ request \notin in_flight'
    BY <1>3 DEF Execute, Fail
  <2>2. Numbers'
    BY <2>1 DEF Numbers, generator
  <2>3. Flags'
    BY <2>1 DEF Flags, generator
  <2>4. SlotInv'
    BY <2>1 DEF SlotInv, Numbers, generator
  <2>5. NetworkInv'
    BY <2>1 DEF NetworkInv, Numbers
  <2>6. QED
    BY <2>1, <2>2, <2>3, <2>4, <2>5
<1>4. CASE UNCHANGED vars
  BY <1>4 DEF vars, generator, network, Numbers, Flags, SlotInv, NetworkInv
<1>5. QED
  BY <1>1, <1>2, <1>3, <1>4 DEF Next

-----------------------------------------------------------------------------
\* View!TypeOK, variable by variable.
ViewInv ==
  /\ server_up \in BOOLEAN /\ debug \in BOOLEAN
  /\ reconnect_latest \in BOOLEAN /\ watchdog_latest \in BOOLEAN
  /\ triggered \in BOOLEAN /\ disabled = triggered
  /\ source \in {"connecting", "open", "closed"}
  /\ reconnect_others \in 0 .. MaxTimers /\ watchdog_others \in 0 .. MaxTimers

LEMMA ViewSuffices == ViewInv => View!TypeOK
<1> SUFFICES ASSUME ViewInv PROVE View!TypeOK
  OBVIOUS
<1>1. {server_up, reconnect_latest, watchdog_latest, triggered, disabled,
       debug} \subseteq BOOLEAN
  BY Zenon DEF ViewInv
<1>2. {reconnect_others, watchdog_others} \subseteq 0 .. MaxTimers
  BY DEF ViewInv
<1>3. QED
  BY <1>1, <1>2, Zenon DEF ViewInv, View!TypeOK

\* A timer that replaces another one is counted within the bound.
LEMMA StartedInRange ==
  ASSUME NEW latest, NEW others \in 0 .. MaxTimers, others < MaxTimers
  PROVE  View!Started(latest, others) \in 0 .. MaxTimers
  BY DEF View!Started

LEMMA ViewStep ==
  ASSUME ViewInv, [View!Next]_events
  PROVE  ViewInv'
<1> USE DEF ViewInv
<1>1. CASE View!Open
  BY <1>1 DEF View!Open, View!reconnect, View!watchdog
<1>2. CASE View!Error
  BY <1>2, StartedInRange DEF View!Error, View!watchdog
<1>3. CASE View!Reconnect
  <2>1. reconnect_latest' \in BOOLEAN /\ reconnect_others' \in 0 .. MaxTimers
    <3>1. CASE reconnect_latest' = FALSE /\ reconnect_others' = reconnect_others
      BY <3>1
    <3>2. CASE /\ reconnect_others > 0 /\ reconnect_others' = reconnect_others - 1
               /\ reconnect_latest' = reconnect_latest
      BY <3>2
    <3>3. QED
      BY <1>3, <3>1, <3>2 DEF View!Reconnect
  <2>2. QED
    BY <1>3, <2>1 DEF View!Reconnect, View!watchdog
<1>4. CASE View!Message
  <2>1. /\ triggered' = FALSE /\ disabled' = FALSE /\ watchdog_latest' = TRUE
        /\ watchdog_others' = watchdog_others
    BY <1>4 DEF View!Message, View!ResetWatchdog
  <2>2. QED
    BY <1>4, <2>1 DEF View!Message, View!reconnect
<1>5. CASE View!WatchdogTimeout
  <2>1. watchdog_latest' \in BOOLEAN /\ watchdog_others' \in 0 .. MaxTimers
    <3>1. CASE watchdog_latest' = FALSE /\ watchdog_others' = watchdog_others
      BY <3>1
    <3>2. CASE /\ watchdog_others > 0 /\ watchdog_others' = watchdog_others - 1
               /\ watchdog_latest' = watchdog_latest
      BY <3>2
    <3>3. QED
      BY <1>5, <3>1, <3>2 DEF View!WatchdogTimeout
  <2>2. QED
    BY <1>5, <2>1 DEF View!WatchdogTimeout, View!reconnect
<1>6. CASE View!DebugOn
  <2>1. /\ triggered' = FALSE /\ disabled' = FALSE /\ watchdog_latest' = FALSE
        /\ watchdog_others' = watchdog_others
    BY <1>6 DEF View!DebugOn, View!DisableWatchdog
  <2>2. QED
    BY <1>6, <2>1 DEF View!DebugOn
<1>7. CASE View!DebugOff
  BY <1>7, StartedInRange DEF View!DebugOff, View!EnableWatchdog, View!reconnect
<1>8. CASE View!ServerChanges
  BY <1>8 DEF View!ServerChanges, View!reconnect, View!watchdog
<1>9. CASE UNCHANGED events
  BY <1>9 DEF events
<1>10. QED
  BY <1>1, <1>2, <1>3, <1>4, <1>5, <1>6, <1>7, <1>8, <1>9 DEF View!Next

-----------------------------------------------------------------------------
StoreInv == CommandsInv /\ ViewInv /\ state \in 0 .. MaxRequests

LEMMA StoreInvInit == StoreInit => StoreInv
<1> SUFFICES ASSUME StoreInit PROVE StoreInv
  OBVIOUS
<1>1. CommandsInv
  BY CommandsInit DEF StoreInit
<1>2. ViewInv
  <2>1. View!Init
    BY DEF StoreInit
  <2>2. reconnect_others \in 0 .. MaxTimers /\ watchdog_others \in 0 .. MaxTimers
    BY <2>1 DEF View!Init
  <2>3. QED
    BY <2>1, <2>2, Zenon DEF View!Init, ViewInv
<1>3. state \in 0 .. MaxRequests
  BY DEF StoreInit, None
<1>4. QED
  BY <1>1, <1>2, <1>3 DEF StoreInv

\* Every step of the store is one of the command path, of the event path, or
\* one of each that leaves the other unchanged.
LEMMA StoreSteps ==
  ASSUME [StoreNext]_storeVars
  PROVE  /\ [Next]_vars /\ [View!Next]_events
         /\ state' = state \/ state' = device
<1>1. CASE dispatch_action
  BY <1>1 DEF dispatch_action, Next
<1>2. CASE RateLimitTimer
  BY <1>2 DEF RateLimitTimer, Next
<1>3. CASE Arrive
  BY <1>3 DEF Arrive, Next
<1>4. CASE update_state
  BY <1>4 DEF update_state, commands, View!Next
<1>5. CASE Connection
  BY <1>5 DEF Connection, commands, View!Next
<1>6. CASE UNCHANGED storeVars
  BY <1>6 DEF storeVars, commands
<1>7. QED
  BY <1>1, <1>2, <1>3, <1>4, <1>5, <1>6 DEF StoreNext

LEMMA StoreInvStep == StoreInv /\ [StoreNext]_storeVars => StoreInv'
<1> SUFFICES ASSUME StoreInv, [StoreNext]_storeVars PROVE StoreInv'
  OBVIOUS
<1>1. CommandsInv'
  BY StoreSteps, CommandsStep DEF StoreInv
<1>2. ViewInv'
  BY StoreSteps, ViewStep DEF StoreInv
<1>3. state' \in 0 .. MaxRequests
  BY StoreSteps DEF StoreInv, CommandsInv, Numbers
<1>4. QED
  BY <1>1, <1>2, <1>3 DEF StoreInv

LEMMA StoreInvHolds == StoreSpec => []StoreInv
  BY StoreInvInit, StoreInvStep, PTL DEF StoreSpec

\* All variables of both paths keep their types, with one timer while the rate
\* limit is active and the controls disabled exactly after a timeout
\* (async_requests_sse.js:73-97, 206-226).
THEOREM StoreTypeCorrect == StoreSpec => []StoreTypeOK
<1>1. StoreInv => StoreTypeOK
  BY TypesSuffice, ViewSuffices
  DEF StoreInv, StoreTypeOK, CommandsInv, Requests, None
<1>2. QED
  BY <1>1, StoreInvHolds, PTL

\* No request is fetched twice, nor after a newer one, however many requests
\* fall between the timers (async_requests_sse.js:73-97).
THEOREM RequestsInOrder == StoreSpec => SentOnceInOrder
<1>1. StoreInv /\ [StoreNext]_storeVars =>
        [fetches' # fetches => last_sent' > last_sent]_vars
  BY StoreSteps, CommandsStep DEF StoreInv
<1>2. QED
  BY <1>1, StoreInvHolds, PTL DEF StoreSpec, SentOnceInOrder

\* A fetch never takes a disturbance back.
LEMMA DisturbedKept ==
  ASSUME disturbed \in BOOLEAN, NEW request, NEW running, Fetch(request, running)
  PROVE  disturbed' \in BOOLEAN /\ (disturbed => disturbed')
<1>1. CASE in_flight = {}
  BY <1>1 DEF Fetch
<1>2. CASE in_flight # {}
  BY <1>2 DEF Fetch
<1>3. QED
  BY <1>1, <1>2

\* What each step of the store is for its user.
LEMMA StoreRefines ==
  StoreInv /\ [StoreNext]_storeVars => [Remote!Next]_(Remote!vars)
<1> SUFFICES ASSUME StoreInv, [StoreNext]_storeVars
             PROVE  Remote!Next \/ UNCHANGED Remote!vars
  OBVIOUS
<1>1. UNCHANGED events => UNCHANGED (server_up /\ ~debug)
  <2> SUFFICES ASSUME UNCHANGED events
               PROVE  (server_up' /\ ~debug') = (server_up /\ ~debug)
    OBVIOUS
  <2>1. server_up' = server_up /\ debug' = debug
    BY DEF events
  <2>2. QED
    BY <2>1
<1>2. CASE dispatch_action
  <2>1. /\ issued' = issued + 1 /\ device' = device /\ state' = state
        /\ UNCHANGED events
    BY <1>2 DEF dispatch_action, SendCmd
  <2>2. disturbed' \in BOOLEAN /\ (disturbed => disturbed')
    BY <1>2, DisturbedKept DEF dispatch_action, SendCmd, StoreInv, CommandsInv, Flags
  <2>3. Remote!Want
    BY <1>1, <2>1, <2>2 DEF Remote!Want
  <2>4. QED
    BY <2>3 DEF Remote!Next
<1>3. CASE RateLimitTimer
  <2>1. /\ issued' = issued /\ device' = device /\ state' = state
        /\ UNCHANGED events
    BY <1>3 DEF RateLimitTimer, TimerExpires
  <2>2. disturbed' \in BOOLEAN /\ (disturbed => disturbed')
    BY <1>3, DisturbedKept DEF RateLimitTimer, TimerExpires, StoreInv, CommandsInv, Flags
  <2>3. Remote!Want
    BY <1>1, <2>1, <2>2 DEF Remote!Want
  <2>4. QED
    BY <2>3 DEF Remote!Next
<1>4. CASE Arrive
  <2>1. state' = state /\ UNCHANGED events
    BY <1>4 DEF Arrive
  <2>2. ASSUME NEW request \in Requests, Fail(request)
        PROVE  Remote!Want
    BY <1>1, <2>1, <2>2 DEF Fail, Remote!Want
  <2>3. ASSUME NEW request \in Requests, Execute(request)
        PROVE  Remote!Do
    <3>1. request \in in_flight /\ device' = request /\ UNCHANGED <<issued, disturbed>>
      BY <2>3 DEF Execute
    <3>2. request \in 1 .. issued
      BY <3>1 DEF StoreInv, CommandsInv, SlotInv, Numbers
    <3>3. disturbed \/ request > device
      BY <3>1 DEF StoreInv, CommandsInv, NetworkInv
    <3>4. QED
      BY <1>1, <2>1, <3>1, <3>2, <3>3 DEF Remote!Do
  <2>4. QED
    BY <1>4, <2>2, <2>3 DEF Arrive, Remote!Next
<1>5. CASE update_state
  <2>1. state' = device /\ UNCHANGED <<issued, device, disturbed, server_up, debug>>
    BY <1>5 DEF update_state, commands, vars, network, View!Message
  <2>2. UNCHANGED (server_up /\ ~debug)
    BY <2>1, Zenon
  <2>3. QED
    BY <2>1, <2>2 DEF Remote!Show, Remote!Next
<1>6. CASE Connection
  <2>1. UNCHANGED <<issued, device, disturbed, state>>
    BY <1>6 DEF Connection, commands, vars, network
  <2>2. \/ UNCHANGED (server_up /\ ~debug)
        \/ (server_up /\ ~debug)' = ~(server_up /\ ~debug)
    <3>1. (server_up /\ ~debug)' \in BOOLEAN /\ (server_up /\ ~debug) \in BOOLEAN
      BY Zenon
    <3>2. QED
      BY <3>1, Zenon
  <2>3. QED
    BY <2>1, <2>2 DEF Remote!Reach, Remote!Next, Remote!vars
<1>7. CASE UNCHANGED storeVars
  BY <1>1, <1>7 DEF storeVars, commands, vars, network, Remote!vars
<1>8. QED
  BY <1>2, <1>3, <1>4, <1>5, <1>6, <1>7 DEF StoreNext

\* The safety part of ImplementsRemoteControl: commands are executed in their
\* order until the network is disturbed, only what the user wanted is executed,
\* and only what the device has done is shown (useApiStore.js:63-101).
THEOREM StoreImplementsRemoteControl ==
  StoreSpec => Remote!Init /\ [][Remote!Next]_(Remote!vars)
<1>1. StoreInit => Remote!Init
  <2> SUFFICES ASSUME StoreInit PROVE Remote!Init
    OBVIOUS
  <2>1. (server_up /\ ~debug) \in BOOLEAN
    BY Zenon
  <2>2. issued = 0 /\ device = 0 /\ state = 0 /\ disturbed = FALSE
    BY DEF StoreInit, Init, None
  <2>3. QED
    BY <2>1, <2>2 DEF Remote!Init
<1>2. QED
  BY <1>1, StoreRefines, StoreInvHolds, PTL DEF StoreSpec

=============================================================================
