----------------------------- MODULE IdleClient -----------------------------
(***************************************************************************)
(* What the Idle interface promises its peers: the life of each client, as *)
(* its owner sees it on the bus.  A client is requested, started, idle or  *)
(* active while it runs, stopped and destroyed, in that order; input wakes *)
(* all the idle clients at once.  A Stop may come too late for a timer     *)
(* that has expired: the client is then late, and may be declared idle     *)
(* although it is stopped, until it is started or released.                *)
(***************************************************************************)
CONSTANTS Clients, Senders, Nobody

VARIABLES phase,  \* per client: "absent", "stopped", "late", "late idle",
                  \* "active" or "idle"
          owner   \* per client: the peer that requested it

vars == <<phase, owner>>

Init ==
  /\ phase = [c \in Clients |-> "absent"]
  /\ owner = [c \in Clients |-> Nobody]

Request(s, c) ==
  /\ phase[c] = "absent"
  /\ phase' = [phase EXCEPT ![c] = "stopped"]
  /\ owner' = [owner EXCEPT ![c] = s]

Release(c) ==
  /\ phase[c] \in {"stopped", "late", "late idle"}
  /\ phase' = [phase EXCEPT ![c] = "absent"]
  /\ owner' = [owner EXCEPT ![c] = Nobody]

Change(c, from, to) ==
  /\ phase[c] = from
  /\ phase' = [phase EXCEPT ![c] = to]
  /\ owner' = owner

\* A late client starts as it is, active or idle.
Start(c) ==
  \/ Change(c, "stopped", "active")
  \/ Change(c, "late", "active")
  \/ Change(c, "late idle", "idle")

Stop(c) ==
  \E from \in {"active", "idle"}, to \in {"stopped", "late"} :
    Change(c, from, to)

GoIdle(c) ==
  \/ Change(c, "active", "idle")
  \/ Change(c, "late", "late idle")

\* A client that was started idle has a timer, which may find the user back:
\* the client counts on, and nobody is told.
Recheck(c) == Change(c, "idle", "active")

\* Input; a late client that it wakes may be declared idle again.
Woken(c, silent) ==
  CASE phase[c] = "idle"      -> "active"
    [] phase[c] = "late idle" -> IF c \in silent THEN "stopped" ELSE "late"
    [] OTHER                  -> phase[c]

WakeAll ==
  /\ \E silent \in SUBSET Clients :
       phase' = [c \in Clients |-> Woken(c, silent)]
  /\ owner' = owner

Next ==
  \/ WakeAll
  \/ \E c \in Clients :
       \/ \E s \in Senders : Request(s, c)
       \/ Release(c) \/ Start(c) \/ Stop(c) \/ GoIdle(c) \/ Recheck(c)

Spec == Init /\ [][Next]_vars
=============================================================================
