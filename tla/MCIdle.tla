------------------------------- MODULE MCIdle -------------------------------
(* Instances of Idle for TLC. *)
EXTENDS Idle, TLC

Interchangeable == Permutations(Clients) \cup Permutations(Senders)
=============================================================================
