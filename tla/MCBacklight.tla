---------------------------- MODULE MCBacklight ----------------------------
(* Instances of Backlight for TLC: an internal screen and a monitor. *)
EXTENDS Backlight, TLC

CONSTANTS lcd, ext

Maxima == [d \in Devices |-> IF d = lcd THEN 2 ELSE 1]
=============================================================================
