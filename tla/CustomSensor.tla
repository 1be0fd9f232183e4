---------------------------- MODULE CustomSensor ----------------------------
(***************************************************************************)
(* The settings of the custom sensor and what it makes of the illuminance  *)
(* that it reads (sensors/custom.c).  A capture parses the settings and    *)
(* sanitizes them; each frame is then clamped between `min' and `max' and  *)
(* divided by `max'.                                                       *)
(***************************************************************************)
EXTENDS Integers

CONSTANTS IllMax, IllMin,  \* CUSTOM_ILL_MAX and CUSTOM_ILL_MIN (4096 and 0)
          Parsed,          \* values that callers pass for `m' and `M'
          Illuminances,    \* what the script of the sensor prints
          Unset            \* the setting is not passed

ASSUME CustomAssumption ==
  /\ IllMax \in Nat \ {0} /\ IllMin \in 0..IllMax
  /\ Parsed \subseteq Int /\ Illuminances \subseteq Int
  /\ Unset \notin Parsed

Settings == (Parsed \cup {Unset}) \X (Parsed \cup {Unset})

Passed(value, default) == IF value = Unset THEN default ELSE value

\* The sanity checks of parse_settings, in their order: each resets `min'
\* to CUSTOM_ILL_MAX.
SaneMin(m) == IF m < 0 THEN IllMax ELSE m
SaneMax(n) == IF n < 0 THEN IllMax ELSE n
SaneEach(m, n) == <<SaneMin(m), SaneMax(n)>>
Sane(m, n) ==
  IF SaneMin(m) > SaneMax(n) THEN <<IllMax, IllMax>>
  ELSE <<SaneMin(m), SaneMax(n)>>

\* <<min, max>>, for the settings of a caller
Limits(settings) ==
  Sane(Passed(settings[1], IllMin), Passed(settings[2], IllMax))

\* A frame that is read, between min and max; it counts as a share of max.
Clamp(v, limits) ==
  IF v > limits[2] THEN limits[2] ELSE IF v < limits[1] THEN limits[1] ELSE v
=============================================================================
