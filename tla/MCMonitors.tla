----------------------------- MODULE MCMonitors -----------------------------
(* Three monitors: a DDC one, one that is emulated, and a twin of the first *)
(* with the same serial number.                                             *)
EXTENDS Monitors
CONSTANTS ddc, emu, twin, sn, busno, port1, port2, port3
SerialNumbers == [m \in Monitors |-> IF m = emu THEN busno ELSE sn]
Ports == [m \in Monitors |->
            IF m = ddc THEN port1 ELSE IF m = emu THEN port2 ELSE port3]
=============================================================================
