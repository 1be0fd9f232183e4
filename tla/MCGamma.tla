------------------------------ MODULE MCGamma ------------------------------
(* Instances of Gamma for TLC: the ramps of temperatures below 5 look      *)
(* alike, and one above 7 may read as the one below it.  The daemon reaches  *)
(* X by the empty name if it was started with a DISPLAY.                     *)
EXTENDS Gamma

EachDisplay ==
  {[plugin |-> p, names |-> Names] : p \in {"wl", "drm", "xorg"}}
    \cup {[plugin |-> p, names |-> {Card}] : p \in {"xorg", "blank"}}

Reading == [t \in Word |-> IF t < 5 THEN {4} ELSE IF t > MaxTemp THEN {MaxTemp}
                           ELSE IF t > 7 THEN {t - 1, t} ELSE {t}]
=============================================================================
