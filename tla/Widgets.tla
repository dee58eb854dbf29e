------------------------------ MODULE Widgets ------------------------------
(***************************************************************************)
(* The input widgets of the web client (vue_app/src/widgets), as functions *)
(* of a widget's data.  Each widget displays a field of the state that the *)
(* device feeds back; while the user operates it, it displays the input    *)
(* instead.                                                                *)
(*                                                                         *)
(* A widget keeps                                                          *)
(*   phase   "idle", or "typing" and then "committed" while editing        *)
(*   shown   value_displayed, the value of the dial, or the checkbox       *)
(*   timer   whether its timeout is running                                *)
(*   props   the properties it was rendered with last                      *)
(***************************************************************************)
EXTENDS Integers

Phases == {"unmounted", "idle", "typing", "committed"}

\* parseFloat("") of an emptied number field.
NaN == -1

\* Math.min(max, Math.max(min, val)), which keeps NaN.
Limit(val, min, max) ==
  LET raised == IF val > min THEN val ELSE min
  IN CASE val = NaN -> NaN
       [] OTHER -> IF raised < max THEN raised ELSE max

Unmounted ==
  [phase |-> "unmounted", shown |-> 0, timer |-> FALSE,
   props |-> [feedback |-> 0, min |-> 0, max |-> 0]]

Editing(w) == w.phase \in {"typing", "committed"}

(***************************************************************************)
(* LiveJogDial: set_value.                                                 *)
(***************************************************************************)
set_value(val, props) ==
  CASE val < props.min -> props.min
    [] val >= props.min /\ val > props.max -> props.max
    [] OTHER -> val

\* data(); the dial also calls set_value in mounted().
Mounted(kind, props) ==
  [phase |-> "idle", timer |-> FALSE, props |-> props,
   shown |-> IF kind = "dial" THEN set_value(props.feedback, props)
                              ELSE props.feedback]

(***************************************************************************)
(* New properties arrive and the watchers run.                             *)
(***************************************************************************)
Fresh(w, props) == props.feedback # w.props.feedback

\* A number or range input takes the new feedback unless it is being edited.
number_watch(w, props) ==
  IF Fresh(w, props) /\ ~Editing(w) THEN props.feedback ELSE w.shown

range_watch(w, props) == number_watch(w, props)

\* The dial clamps it, and clamps what it has when only a limit is new.
dial_watch(w, props) ==
  set_value(IF Fresh(w, props) THEN props.feedback ELSE w.shown, props)

\* A checkbox is written when the feedback differs from the one rendered last.
toggle_render(w, props) ==
  IF Fresh(w, props) THEN props.feedback ELSE w.shown

Patched(kind, w, props) ==
  [w EXCEPT
     !.props = props,
     !.shown = CASE kind = "number" -> number_watch(w, props)
                 [] kind = "range" -> range_watch(w, props)
                 [] kind = "dial" -> dial_watch(w, props)
                 [] kind = "toggle" -> toggle_render(w, props)
                 [] kind = "button" -> w.shown]

(***************************************************************************)
(* LiveNumberInput.  There is one timer; on_input and on_change restart    *)
(* it, and it goes on running after a blur.                                *)
(***************************************************************************)

\* Bug: the input is left standing where it is.
LeaveKeepingInput(w) == [w EXCEPT !.phase = "idle"]

number_leave_edit_mode(w) == [w EXCEPT !.phase = "idle", !.shown = w.props.feedback]

number_on_input(w, val) ==
  [w EXCEPT !.phase = "typing", !.shown = val, !.timer = TRUE]

\* Bug: the timeout is stopped with the input and not started again.
ChangeWithoutTimeout(w) == [w EXCEPT !.phase = "committed", !.timer = FALSE]

number_on_change(w) == [w EXCEPT !.phase = "committed", !.timer = TRUE]

number_emits(w) == Limit(w.shown, w.props.min, w.props.max)

number_timeout(w) == [number_leave_edit_mode(w) EXCEPT !.timer = FALSE]

(***************************************************************************)
(* LiveRangeInput: emits with every movement, on_change ends the editing.  *)
(***************************************************************************)
range_on_input(w, val) == [w EXCEPT !.phase = "typing", !.shown = val]

range_on_change(w) == [w EXCEPT !.phase = "idle", !.shown = w.props.feedback]

(***************************************************************************)
(* LiveJogDial: the bar shows the feedback also while the knob is turned.  *)
(***************************************************************************)
on_dial_mousedown(w) == [w EXCEPT !.phase = "typing"]

on_dial_mouseup(w) ==
  [w EXCEPT !.phase = "idle", !.shown = set_value(@, w.props)]

(***************************************************************************)
(* LiveToggleSwitch: the browser has changed the checkbox already.         *)
(***************************************************************************)
toggle_on_change(w) == [w EXCEPT !.shown = 1 - @]

=============================================================================
