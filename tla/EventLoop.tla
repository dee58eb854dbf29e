----------------------------- MODULE EventLoop -----------------------------
(***************************************************************************)
(* How changes of the application state get to a web client                *)
(* (main/app_controller.cpp): writers change the state and set a bit of    *)
(* the event group; the event loop in app_task takes all bits at once and  *)
(* pushes the whole state to the event source, which queues it for the     *)
(* connected client.                                                       *)
(*                                                                         *)
(* Writers are the HTTP handlers in async_tcp and the MultiTimer callbacks *)
(* in esp_timer; they share no lock with the event loop and may change a   *)
(* field while the loop is reading the state field by field.  A field's    *)
(* value is the number of times it was changed.                            *)
(***************************************************************************)
EXTENDS Naturals, Sequences, Functions

CONSTANTS
  Writers,      \* tasks that run setters
  Fields,       \* of the application state
  MaxChanges,   \* bound: changes of one field
  MaxQueue      \* the event source's limit of queued messages

ASSUME BoundsAssumption == MaxChanges \in Nat /\ MaxQueue \in Nat \ {0}

VARIABLES
  state,        \* the application state
  flags,        \* bits of _app_event_group that are set
  announced,    \* history: per field, the latest value signalled
  pending,      \* per writer: the field changed and not yet signalled, or {}
  pc, taken,    \* the event loop: where it is and the bits it has taken
  unread, json, \* serialisation: fields still to read, the buffer
  sent,         \* history: the latest state handed to the event source
  connected, queue, \* the event source's client and its messages
  shown         \* the state the client displays

writers == <<state, announced, pending>>
loop == <<pc, taken, unread, json, sent>>
client == <<connected, queue, shown>>
vars == <<writers, flags, loop, client>>

Bits == {"timer_fast", "timer_slow", "state_changed"}
States == [Fields -> 0 .. MaxChanges]
Initial == [f \in Fields |-> 0]

Init ==
  /\ state = Initial
  /\ flags = {}
  /\ announced = Initial
  /\ pending = [w \in Writers |-> {}]
  /\ pc = "wait"
  /\ taken = {}
  /\ unread = {}
  /\ json = Initial
  /\ sent = Initial
  /\ connected = FALSE
  /\ queue = <<>>
  /\ shown = Initial

(***************************************************************************)
(* Writers.  A setter changes its field and then sends the event.          *)
(***************************************************************************)
Change(w, f) ==
  /\ pending[w] = {}
  /\ state[f] < MaxChanges
  /\ state' = [state EXCEPT ![f] = @ + 1]
  /\ pending' = [pending EXCEPT ![w] = {f}]
  /\ UNCHANGED <<announced, flags, loop, client>>

\* _send_state_changed_event
SendStateChangedEvent(w) ==
  /\ pending[w] # {}
  /\ flags' = flags \cup {"state_changed"}
  /\ announced' = [f \in Fields |->
                     IF f \in pending[w] THEN state[f] ELSE announced[f]]
  /\ pending' = [pending EXCEPT ![w] = {}]
  /\ UNCHANGED <<state, loop, client>>

\* A setter without an event: set_frequency_changerate_khz_sec.
ChangeSilently(w, f) ==
  /\ pending[w] = {}
  /\ state[f] < MaxChanges
  /\ state' = [state EXCEPT ![f] = @ + 1]
  /\ UNCHANGED <<announced, pending, flags, loop, client>>

\* event_timer_fast, event_timer_slow.
Tick(bit) ==
  /\ bit \notin flags
  /\ flags' = flags \cup {bit}
  /\ UNCHANGED <<writers, loop, client>>

(***************************************************************************)
(* The event loop.                                                         *)
(***************************************************************************)

\* Bug: only the highest bit is handled, the others are lost.
WaitOneBit ==
  /\ pc = "wait"
  /\ flags # {}
  /\ taken' = IF "timer_fast" \in flags THEN {"timer_fast"} ELSE flags
  /\ flags' = {}
  /\ pc' = "fast"
  /\ UNCHANGED <<writers, unread, json, sent, client>>

\* xEventGroupWaitBits returns the bits and clears them in one step.
Wait ==
  /\ pc = "wait"
  /\ flags # {}
  /\ taken' = flags
  /\ flags' = {}
  /\ pc' = "fast"
  /\ UNCHANGED <<writers, unread, json, sent, client>>

\* The fast tick updates fields of its own accord: sensors and fault flags
\* without an event, throttled setpoints with one.
HandleFast ==
  /\ pc = "fast"
  /\ pc' = "slow"
  /\ \/ UNCHANGED <<state, announced, flags>>
     \/ /\ "timer_fast" \in taken
        /\ \E f \in Fields :
             /\ state[f] < MaxChanges
             /\ state' = [state EXCEPT ![f] = @ + 1]
             /\ \/ UNCHANGED <<announced, flags>>
                \/ /\ announced' = [announced EXCEPT ![f] = state'[f]]
                   /\ flags' = flags \cup {"state_changed"}
  /\ taken' = taken \ {"timer_fast"}
  /\ UNCHANGED <<pending, unread, json, sent, client>>

\* timer_slow and then state_changed: _push_state_update for each.
BeginPush(bit, at, done) ==
  /\ pc = at
  /\ \/ bit \in taken /\ pc' = "read" /\ unread' = Fields
     \/ bit \notin taken /\ pc' = done /\ unread' = unread
  /\ UNCHANGED <<writers, flags, taken, json, sent, client>>

HandleSlow == BeginPush("timer_slow", "slow", "changed")
HandleChanged == BeginPush("state_changed", "changed", "wait")

\* serialize_full_state, one field after the other.
ReadField(f) ==
  /\ pc = "read"
  /\ f \in unread
  /\ json' = [json EXCEPT ![f] = state[f]]
  /\ unread' = unread \ {f}
  /\ UNCHANGED <<writers, flags, pc, taken, sent, client>>

\* The buffer is given up; the push for timer_slow comes first.
EndPush ==
  /\ json' = Initial
  /\ \/ "timer_slow" \in taken /\ pc' = "changed"
        /\ taken' = taken \ {"timer_slow"}
     \/ "timer_slow" \notin taken /\ pc' = "wait" /\ taken' = {}

\* Bug: the loop forgets the bits that came while it was pushing.
SendClearing ==
  /\ pc = "read" /\ unread = {}
  /\ sent' = json
  /\ queue' = IF connected /\ Len(queue) < MaxQueue
              THEN Append(queue, json) ELSE queue
  /\ flags' = {}
  /\ EndPush
  /\ UNCHANGED <<writers, unread, connected, shown>>

\* Bug: the queue takes one message too many.
SendOneTooMany ==
  /\ pc = "read" /\ unread = {}
  /\ sent' = json
  /\ queue' = IF connected /\ Len(queue) <= MaxQueue
              THEN Append(queue, json) ELSE queue
  /\ EndPush
  /\ UNCHANGED <<writers, flags, unread, connected, shown>>

\* Bug: the latest message overtakes the others.
SendLatestFirst ==
  /\ pc = "read" /\ unread = {}
  /\ sent' = json
  /\ queue' = IF connected /\ Len(queue) < MaxQueue
              THEN <<json>> \o queue ELSE queue
  /\ EndPush
  /\ UNCHANGED <<writers, flags, unread, connected, shown>>

\* event_source->send: nothing without a client, dropped if its queue is full.
Send ==
  /\ pc = "read" /\ unread = {}
  /\ sent' = json
  /\ queue' = IF connected /\ Len(queue) < MaxQueue
              THEN Append(queue, json) ELSE queue
  /\ EndPush
  /\ UNCHANGED <<writers, flags, unread, connected, shown>>

(***************************************************************************)
(* The event source and its client (external).                             *)
(***************************************************************************)
Receive ==
  /\ queue # <<>>
  /\ shown' = Head(queue)
  /\ queue' = Tail(queue)
  /\ UNCHANGED <<writers, flags, loop, connected>>

\* A connection that ends takes its queue with it.
Connect ==
  /\ ~connected
  /\ connected' = TRUE
  /\ UNCHANGED <<writers, flags, loop, queue, shown>>

Disconnect ==
  /\ connected
  /\ connected' = FALSE
  /\ queue' = <<>>
  /\ UNCHANGED <<writers, flags, loop, shown>>

Push ==
  \/ HandleFast \/ HandleSlow \/ HandleChanged
  \/ \E f \in Fields : ReadField(f)
  \/ Send

Write ==
  \E w \in Writers :
    \/ \E f \in Fields : Change(w, f) \/ ChangeSilently(w, f)
    \/ SendStateChangedEvent(w)

Next ==
  \/ Write
  \/ \E bit \in {"timer_fast", "timer_slow"} : Tick(bit)
  \/ Wait \/ Push
  \/ Receive \/ Connect \/ Disconnect

Spec == Init /\ [][Next]_vars

(***************************************************************************)
(* The event loop runs, the slow timer is periodic, and a connected client *)
(* receives its messages.  Nothing has to change, no fast tick has to come *)
(* and no client has to be there.                                          *)
(***************************************************************************)
FairSpec ==
  /\ Spec
  /\ WF_vars(Wait) /\ WF_vars(Push)
  /\ WF_vars(Tick("timer_slow"))
  /\ WF_vars(Receive)

-----------------------------------------------------------------------------
(***************************************************************************)
(* Properties.                                                             *)
(***************************************************************************)

\* Every variable keeps its type, and the client's queue its limit.
TypeOK ==
  /\ {state, announced, json, sent, shown} \subseteq States
  /\ flags \subseteq Bits /\ taken \subseteq Bits
  /\ pending \in [Writers -> {{}} \cup {{f} : f \in Fields}]
  /\ pc \in {"wait", "fast", "slow", "changed", "read"}
  /\ unread \subseteq Fields
  /\ connected \in BOOLEAN
  /\ Len(queue) <= MaxQueue /\ Range(queue) \subseteq States

\* No lost wake-up: whatever a setter announces is in a later push although
\* the bit may be set at any point of a round that has already read the
\* field, with other bits, and several times before it is taken
\* (app_controller.cpp:507-520, 567-569).  When the loop goes to wait without
\* the bit set there is nothing left to push, so this needs no timer.
AnnouncedIsPushed ==
  pc = "wait" /\ "state_changed" \notin flags
    => \A f \in Fields : sent[f] >= announced[f]

\* Every change, announced or not, is displayed by a client that stays
\* connected, even if messages are dropped at the queue's limit: the slow
\* tick pushes the whole state again and again (app_controller.cpp:573).
ClientCatchesUp ==
  \A f \in Fields, v \in 1 .. MaxChanges :
    state[f] >= v ~> shown[f] >= v \/ ~connected

\* What a client displays never goes back to older values, in any field.
NeverBackwards ==
  [][\A f \in Fields : shown'[f] >= shown[f]]_vars
=============================================================================
