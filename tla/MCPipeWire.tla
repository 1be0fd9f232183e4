----------------------------- MODULE MCPipeWire -----------------------------
(* Two cameras, each plugged twice at most, so that one may come back while *)
(* the events of its first time wait.                                       *)
EXTENDS PipeWire
=============================================================================
