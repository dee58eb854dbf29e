---------------------------- MODULE RepeatCycle ----------------------------
(***************************************************************************)
(* What a MultiTimer promises to the owner of its callback, without tasks, *)
(* mutex or timer hardware: the callback is called with the repeat numbers *)
(* 1, 2, ..., Requested, over and over in that order, and a round that has *)
(* begun is always finished, as long as nobody stops or pauses the timer.  *)
(* From then on it is only sure that the numbers stay in range             *)
(* (main/include/multi_timer.hpp, the contract at attach_static_ms).       *)
(***************************************************************************)
EXTENDS Naturals

CONSTANT Requested   \* total_repeat_count

VARIABLES
  last,       \* repeat number of the latest call; 0 before the first
  disturbed   \* the timer was stopped or paused

vars == <<last, disturbed>>

Init == last = 0 /\ disturbed = FALSE

Call ==
  /\ ~disturbed
  /\ last' = IF last = Requested THEN 1 ELSE last + 1
  /\ UNCHANGED disturbed

CallDisturbed ==
  /\ disturbed
  /\ last' \in 1 .. Requested
  /\ UNCHANGED disturbed

Disturb == disturbed' = TRUE /\ UNCHANGED last

\* A round is open from its first call to its last.
Finish == last \in 1 .. (Requested - 1) /\ Call

Next == Call \/ CallDisturbed \/ Disturb

Spec == Init /\ [][Next]_vars /\ WF_vars(Finish)
=============================================================================
