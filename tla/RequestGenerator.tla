-------------------------- MODULE RequestGenerator --------------------------
(***************************************************************************)
(* The rate limit of the commands the web client sends                     *)
(* (AsyncRequestGenerator in vue_app/src/api/async_requests_sse.js).  One  *)
(* generator serves all controls of the view; a request that comes while   *)
(* the limit is active waits in a single slot, where the next one          *)
(* overwrites it.                                                          *)
(*                                                                         *)
(* Requests are numbered in the order the user makes them; 0 is the empty  *)
(* request.  JavaScript runs one callback at a time, so a callback up to   *)
(* its await is one step.                                                  *)
(***************************************************************************)
EXTENDS Naturals

CONSTANT MaxRequests   \* bound: requests the user makes

ASSUME RequestsAssumption == MaxRequests \in Nat

None == 0
Requests == 1 .. MaxRequests

VARIABLES
  issued,             \* the latest request the user made
  rate_limit_active,  \* _rate_limit_active
  pending,            \* _pending_req_str
  timers,             \* number of running setTimeout timers
  last_sent,          \* history: the request fetched last
  fetches,            \* history: number of fetch calls
  in_flight,          \* requests on the network (external)
  disturbed,          \* history: two were there at once, or one failed
  device              \* the request the device executed last (external)

generator == <<rate_limit_active, pending, timers>>
network == <<in_flight, disturbed, device>>
vars == <<issued, generator, last_sent, fetches, network>>

Init ==
  /\ issued = None
  /\ rate_limit_active = FALSE
  /\ pending = None
  /\ timers = 0
  /\ last_sent = None
  /\ fetches = 0
  /\ in_flight = {}
  /\ disturbed = FALSE
  /\ device = None

\* The end of do_passive_get_request: from the flag to the fetch.
Fetch(request, running) ==
  /\ rate_limit_active' = TRUE
  /\ timers' = running + 1
  /\ last_sent' = request
  /\ fetches' = fetches + 1
  /\ in_flight' = in_flight \cup {request}
  /\ disturbed' = (disturbed \/ in_flight # {})

\* send_cmd and do_passive_get_request(req_str), called by a control.
SendCmd ==
  /\ issued < MaxRequests
  /\ issued' = issued + 1
  /\ \/ /\ rate_limit_active
        /\ pending' = issued'
        /\ UNCHANGED <<rate_limit_active, timers, last_sent, fetches,
                       in_flight, disturbed>>
     \/ /\ ~rate_limit_active
        /\ Fetch(issued', timers)
        /\ UNCHANGED pending
  /\ UNCHANGED device

\* Bug: the timer forgets the request that waits.
TimerForgets ==
  /\ timers > 0
  /\ rate_limit_active' = FALSE
  /\ timers' = timers - 1
  /\ UNCHANGED <<issued, pending, last_sent, fetches, network>>

\* Bug: the request that was sent is left in the slot.
TimerKeepsPending ==
  /\ timers > 0
  /\ \/ pending # None /\ Fetch(pending, timers - 1)
     \/ /\ pending = None
        /\ rate_limit_active' = FALSE
        /\ timers' = timers - 1
        /\ UNCHANGED <<last_sent, fetches, in_flight, disturbed>>
  /\ UNCHANGED <<issued, pending, device>>

\* Bug: the limit is released first, what waits is sent by a later callback.
TimerReleasesFirst ==
  /\ timers > 0
  /\ \/ /\ pending # None /\ rate_limit_active
        /\ rate_limit_active' = FALSE
        /\ UNCHANGED <<pending, timers, last_sent, fetches, in_flight, disturbed>>
     \/ /\ pending # None /\ ~rate_limit_active
        /\ pending' = None
        /\ Fetch(pending, timers - 1)
     \/ /\ pending = None
        /\ rate_limit_active' = FALSE
        /\ timers' = timers - 1
        /\ UNCHANGED <<pending, last_sent, fetches, in_flight, disturbed>>
  /\ UNCHANGED <<issued, device>>

\* Bug: the timer is not counted out before the next one starts.
TimerStaysOn ==
  /\ timers > 0
  /\ \/ pending # None /\ pending' = None /\ Fetch(pending, timers)
     \/ /\ pending = None
        /\ rate_limit_active' = FALSE
        /\ timers' = timers - 1
        /\ UNCHANGED <<pending, last_sent, fetches, in_flight, disturbed>>
  /\ UNCHANGED <<issued, device>>

\* The timer expires: do_passive_get_request("") sends what is pending.
TimerExpires ==
  /\ timers > 0
  /\ \/ pending # None /\ pending' = None /\ Fetch(pending, timers - 1)
     \/ /\ pending = None
        /\ rate_limit_active' = FALSE
        /\ timers' = timers - 1
        /\ UNCHANGED <<pending, last_sent, fetches, in_flight, disturbed>>
  /\ UNCHANGED <<issued, device>>

(***************************************************************************)
(* The network and the device (external): each fetch has a connection of   *)
(* its own, requests may arrive in any order.                              *)
(***************************************************************************)
Execute(request) ==
  /\ request \in in_flight
  /\ in_flight' = in_flight \ {request}
  /\ device' = request
  /\ UNCHANGED <<issued, generator, last_sent, fetches, disturbed>>

\* The fetch is rejected or answered with an error: there is an alert, and
\* nothing is tried again.
Fail(request) ==
  /\ request \in in_flight
  /\ in_flight' = in_flight \ {request}
  /\ disturbed' = TRUE
  /\ UNCHANGED <<issued, generator, last_sent, fetches, device>>

Next ==
  \/ SendCmd
  \/ TimerExpires
  \/ \E request \in Requests : Execute(request) \/ Fail(request)

Spec == Init /\ [][Next]_vars

-----------------------------------------------------------------------------
(***************************************************************************)
(* Properties.                                                             *)
(***************************************************************************)

\* Every variable keeps its type.  There is one timer while the rate limit is
\* active and none otherwise, so requests keep their minimum distance.
TypeOK ==
  /\ {issued, pending, last_sent, device} \subseteq Requests \cup {None}
  /\ fetches \in 0 .. MaxRequests
  /\ in_flight \subseteq Requests
  /\ {rate_limit_active, disturbed} \subseteq BOOLEAN
  /\ timers = IF rate_limit_active THEN 1 ELSE 0

\* "all intermediate requests are ignored without any action, except for the
\* very last one" (async_requests_sse.js:69-71): however requests fall between
\* the timers, the user's last one is sent, or one made after it.
LatestIsSent ==
  \A k \in Requests : issued >= k ~> last_sent >= k

\* No request is sent twice, and none after a newer one: the slot never holds
\* what was already overtaken by a direct request.
SentOnceInOrder ==
  [][fetches' # fetches => last_sent' > last_sent]_vars
=============================================================================
