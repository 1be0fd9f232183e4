------------------------------ MODULE MCSensor ------------------------------
(* Two frames at most: enough for a hole, which is a missed frame before one *)
(* that is taken.  Settings and illuminances below and above the limits of   *)
(* the custom sensor.  MCSensor and MCSensorHole check the calls: the camera *)
(* comes and goes, scripts and the other sensors are there or not, and all   *)
(* but scripts may become busy.  MCSensorPlug checks the monitors: a camera  *)
(* and two scripts come, go and are replaced while three events wait.        *)
EXTENDS Sensor, TLC
Perms == Permutations(Scripts)
Printed == {-1, 3}
Around == {-1, 3}
=============================================================================
