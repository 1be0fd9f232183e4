----------------------------- MODULE MCKeyboard -----------------------------
(* Backlights that are on or off, and percentages that are out of range. *)
EXTENDS Keyboard
OnOff == [k \in Keyboards |-> 1]
Requests == {-1, 1, 3}
=============================================================================
