------------------------------- MODULE MCDpms -------------------------------
(* Two users, whose compositors and X servers share display names, a card   *)
(* and a framebuffer; two starts of servers in all.                         *)
EXTENDS Screen, TLC
CONSTANTS x, wl, wl1, gpu, fb
UserSymmetry == Permutations(Users)
XServers == {{"dpms"}}
AllOrOutputs == {{"wlr", "kwin", "outputs", "screencopy"}, {"outputs"}}
Working == {{"outputs"}}
=============================================================================
