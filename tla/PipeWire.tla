------------------------------ MODULE PipeWire ------------------------------
(***************************************************************************)
(* The PIPEWIRE sensor (sensors/pipewire.c) under the Sensor module        *)
(* (sensor.c): the map of camera nodes, the monitor that keeps it, and     *)
(* captures, which block the daemon while the server goes on.              *)
(*                                                                         *)
(* Two modules share the monitor.  PIPEWIRE is woken by the server's       *)
(* socket, or by inotify before there is one, and only writes an eventfd;  *)
(* SENSOR is woken by that, iterates the server's loop, whose callbacks    *)
(* change the map, and reports the last node they touched.                 *)
(***************************************************************************)
EXTENDS Integers, Sequences, FiniteSets, Functions

CONSTANTS Paths,    \* object paths of cameras
          MaxGen,   \* times a path may be given to a new node (bound)
          MaxEvents, \* events the server may have under way (bound)
          Nums,     \* numbers of frames that peers ask for
          Burst     \* frames that one turn of the capture loop may deliver

ASSUME PipeWireAssumption ==
  /\ IsFiniteSet(Paths) /\ MaxGen \in Nat \ {0} /\ MaxEvents \in Nat
  /\ Nums \subseteq Nat \ {0} /\ Burst \in Nat \ {0}

Objects == Paths \X (1..MaxGen)   \* a node: its path, and which one of it
None == << >>
Any == "any"                      \* the empty interface of a call

VARIABLES server,     \* does the server run?
          present,    \* of each path: its node at the server, or 0
          gen,        \* nodes that each path has had
          link,       \* none (watching for the socket), live or dead
          created,    \* inotify has reported the socket
          efd,        \* is the eventfd open?
          signalled,  \* has it been written?
          queue,      \* events from the server
          nodes,      \* of each path: the node of its object, or 0
          removed,    \* objects whose action is UDEV_ACTION_RM
          orphans,    \* objects that lost their entry to another one
          told,       \* of each path: the action in the last Changed signal
          pc,         \* what the daemon is doing
          last,       \* last_recved
          dev, num,   \* the object and num_captures of a capture
          idx, err,   \* cap_set of the object of each path
          timer,      \* has the timer of the capture expired?
          taken,      \* frames taken in this call (history)
          answer,     \* frames replied to the last capture, or 0
          alive,      \* FALSE after undefined behaviour
          skipped,    \* paths whose last event was not signalled (history)
          replaced    \* was an object put over another one? (history)

world   == <<server, present, gen>>
monitor == <<link, created, efd>>
objects == <<nodes, removed, orphans>>
frames  == <<dev, num, idx, err, timer, taken, answer>>
history == <<skipped, replaced>>
vars == <<world, monitor, signalled, queue, objects, told, pc, last, frames,
          alive, history>>

TypeOK ==
  /\ server \in BOOLEAN
  /\ present \in [Paths -> 0..MaxGen] /\ gen \in [Paths -> 0..MaxGen]
  /\ link \in {"none", "live", "dead"}
  /\ created \in BOOLEAN /\ efd \in BOOLEAN /\ signalled \in BOOLEAN
  /\ queue \in Seq({"add", "rm"} \X Objects)
  /\ nodes \in [Paths -> 0..MaxGen]
  /\ removed \subseteq Objects /\ orphans \subseteq Objects
  /\ told \in [Paths -> {"none", "add", "rm"}]
  /\ pc \in {"ready", "iterate", "iterated", "capture"}
  /\ last \in Objects \cup {None}
  /\ dev \in Objects \cup {None} /\ num \in Nums \cup {0}
  /\ idx \in [Paths -> Nat] /\ err \in [Paths -> BOOLEAN]
  /\ timer \in BOOLEAN /\ taken \in Nat /\ answer \in Nat
  /\ alive \in BOOLEAN /\ skipped \subseteq Paths /\ replaced \in BOOLEAN

\* What a server sends to a new client: its nodes, in some order.
Listings ==
  LET here   == {p \in Paths : present[p] # 0}
      orders == Bijection(1..Cardinality(here), here)
  IN  {[k \in 1..Cardinality(here) |-> <<"add", <<o[k], present[o[k]]>>>>] :
         o \in orders}

\* init_monitor: the socket is there and the monitor registered, or its folder
\* is watched.  A socket created between access() and inotify_add_watch() is
\* missed.
Init ==
  /\ present \in [Paths -> 0..1] /\ gen = present
  /\ server \in BOOLEAN /\ (~server => \A p \in Paths : present[p] = 0)
  /\ link \in IF server THEN {"live", "none"} ELSE {"none"}
  /\ queue \in IF link = "live" THEN Listings ELSE {<< >>}
  /\ created = FALSE /\ efd = TRUE /\ signalled = FALSE
  /\ nodes = [p \in Paths |-> 0] /\ removed = {} /\ orphans = {}
  /\ told = [p \in Paths |-> "none"]
  /\ pc = "ready" /\ last = None
  /\ dev = None /\ num = 0 /\ timer = FALSE /\ taken = 0 /\ answer = 0
  /\ idx = [p \in Paths |-> 0] /\ err = [p \in Paths |-> FALSE]
  /\ alive = TRUE /\ skipped = {} /\ replaced = FALSE

-----------------------------------------------------------------------------
(* The server *)

Sent(event) == IF link = "live" THEN Append(queue, event) ELSE queue

ServerStarts ==
  /\ ~server
  /\ server' = TRUE
  /\ created' = (created \/ link = "none")
  /\ UNCHANGED <<present, gen, link, efd, signalled, queue, objects, told, pc,
                 last, frames, alive, history>>

\* A connection that is lost drops what it had not delivered.
ServerStops ==
  /\ server
  /\ server' = FALSE /\ present' = [p \in Paths |-> 0]
  /\ link' = IF link = "live" THEN "dead" ELSE link
  /\ queue' = << >>
  /\ UNCHANGED <<gen, created, efd, signalled, objects, told, pc, last, frames,
                 alive, history>>

NodeComes(p) ==
  /\ server /\ present[p] = 0 /\ gen[p] < MaxGen /\ Len(queue) < MaxEvents
  /\ gen' = [gen EXCEPT ![p] = @ + 1]
  /\ present' = [present EXCEPT ![p] = gen[p] + 1]
  /\ queue' = Sent(<<"add", <<p, gen[p] + 1>>>>)
  /\ UNCHANGED <<server, monitor, signalled, objects, told, pc, last, frames,
                 alive, history>>

\* A client hears of the end of a node if it has bound it.
Bound(x) == \A k \in DOMAIN queue : queue[k] # <<"add", x>>

NodeGoes(p) ==
  LET x == <<p, present[p]>>
  IN  /\ present[p] # 0 /\ Len(queue) < MaxEvents
      /\ present' = [present EXCEPT ![p] = 0]
      /\ queue' = IF Bound(x) THEN Sent(<<"rm", x>>) ELSE queue
      /\ UNCHANGED <<server, gen, monitor, signalled, objects, told, pc, last,
                     frames, alive, history>>

-----------------------------------------------------------------------------
(* The monitor *)

\* receive of PIPEWIRE, inotify: connect to the socket; if that fails,
\* destroy_monitor closes the eventfd and the folder is still watched.
Registers ==
  /\ alive /\ pc = "ready" /\ link = "none" /\ created
  /\ created' = FALSE
  /\ \/ server /\ link' = "live" /\ queue' \in Listings /\ UNCHANGED efd
     \/ efd' = FALSE /\ UNCHANGED <<link, queue>>
  /\ UNCHANGED <<world, signalled, objects, told, pc, last, frames, alive,
                 history>>

\* The socket has something to read.
FirstEvent == Len(queue) = 1
Readable == queue # << >>

\* receive of PIPEWIRE, monitor: tell SENSOR.
Relay ==
  /\ alive /\ pc = "ready" /\ link = "live" /\ Readable
  /\ signalled' = (signalled \/ efd)
  /\ UNCHANGED <<world, monitor, queue, objects, told, pc, last, frames, alive,
                 history>>

\* receive of SENSOR, recv_monitor: the eventfd is read and the loop iterated.
Receive ==
  /\ alive /\ pc = "ready" /\ efd /\ signalled
  /\ signalled' = FALSE /\ pc' = "iterate" /\ last' = None
  /\ UNCHANGED <<world, monitor, queue, objects, told, frames, alive, history>>

\* registry_event_global.  The map of libmodule, given a path it has, either
\* destroys the old object, on whose path the entry still is, or loses it.
Added(x) ==
  LET p == x[1]
      old == <<p, nodes[p]>>
  IN  /\ nodes' = [nodes EXCEPT ![p] = x[2]]
      /\ idx' = [idx EXCEPT ![p] = 0] /\ err' = [err EXCEPT ![p] = FALSE]
      /\ IF nodes[p] = 0 THEN UNCHANGED <<removed, orphans, alive, replaced>>
         ELSE /\ replaced' = TRUE
              /\ \/ orphans' = orphans \cup {old} /\ UNCHANGED <<removed, alive>>
                 \/ /\ alive' \in BOOLEAN
                    /\ removed' = removed \ {old} /\ UNCHANGED orphans

\* removed_proxy, of an object that still is.
RemovedUnmarked(x) == removed
Removed(x) == removed \cup {x}
Exists(x) == nodes[x[1]] = x[2] \/ x \in orphans

\* last_recved is x: the node before it in this iteration is not signalled.
Touched(x) ==
  /\ last' = x
  /\ skipped' = (skipped \cup {y[1] : y \in {last} \ {None}}) \ {x[1]}

\* One event of an iteration, which handles those that have arrived.  A node
\* that ended before it was bound is heard of after that.
Iterate ==
  /\ alive /\ pc \in {"iterate", "iterated"} /\ queue # << >>
  /\ pc' = "iterated"
  /\ LET kind == Head(queue)[1]
         x    == Head(queue)[2]
     IN  \/ /\ kind = "add"
            /\ Added(x)
            /\ Touched(x)
            /\ queue' = IF present[x[1]] = x[2] THEN Tail(queue)
                        ELSE Append(Tail(queue), <<"rm", x>>)
         \/ /\ kind = "rm" /\ Exists(x)
            /\ removed' = Removed(x)
            /\ Touched(x)
            /\ queue' = Tail(queue)
            /\ UNCHANGED <<nodes, orphans, idx, err, alive, replaced>>
         \/ /\ kind = "rm" /\ ~Exists(x)
            /\ queue' = Tail(queue)
            /\ UNCHANGED <<objects, last, idx, err, alive, history>>
  /\ UNCHANGED <<world, monitor, signalled, told, dev, num, timer, taken,
                 answer>>

\* destroy_dev: cap_set is reset, and the entry of a removed node goes: that
\* of its path, whose object may be another one by now.
FreesAll(x) == TRUE
FreesNone(x) == FALSE
Frees(x) == x \in removed

KeepsCapture(p) == UNCHANGED <<idx, err>>
ResetsCapture(p) ==
  idx' = [idx EXCEPT ![p] = 0] /\ err' = [err EXCEPT ![p] = FALSE]

DestroyDev(x) ==
  /\ ResetsCapture(x[1])
  /\ IF Frees(x)
       THEN /\ removed' = removed \ {x, <<x[1], nodes[x[1]]>>}
            /\ nodes' = [nodes EXCEPT ![x[1]] = 0]
            /\ orphans' = orphans \ {x}
       ELSE UNCHANGED objects

\* The end of receive of SENSOR: signal the last node and let it go.
Action(x) == IF x \in removed THEN "rm" ELSE "add"

Finish ==
  /\ alive
  /\ pc = "iterated" \/ (pc = "iterate" /\ queue = << >>)
  /\ pc' = "ready" /\ last' = None
  /\ IF last = None THEN UNCHANGED <<told, idx, err, objects>>
     ELSE /\ told' = [told EXCEPT ![last[1]] = Action(last)]
          /\ DestroyDev(last)
  /\ UNCHANGED <<world, monitor, signalled, queue, dev, num, timer, taken,
                 answer, alive, history>>

-----------------------------------------------------------------------------
(* Calls *)

Kept == {p \in Paths : nodes[p] # 0}

\* fetch_dev: the object of the path; for the empty interface that of the
\* camera that udev saw last or, if it has none, the last of the map.
Fetched(interface) == IF interface = Any THEN Kept ELSE {interface} \cap Kept

\* method_issensoravailable; with no device nothing changes.
IsAvailable(interface) ==
  /\ alive /\ pc = "ready"
  /\ \E p \in Fetched(interface) : DestroyDev(<<p, nodes[p]>>)
  /\ UNCHANGED <<world, monitor, signalled, queue, told, pc, last, dev, num,
                 timer, taken, answer, alive, history>>

\* method_capturesensor and capture, whose stream connects or does not.
Capture(interface, n) ==
  /\ alive /\ pc = "ready"
  /\ \E p \in Fetched(interface) : dev' = <<p, nodes[p]>>
  /\ num' = n /\ taken' = 0 /\ answer' = 0 /\ timer' = FALSE
  /\ pc' = "capture"
  /\ UNCHANGED <<world, monitor, signalled, queue, objects, told, last, idx,
                 err, alive, history>>

Path == dev[1]

\* The loop goes on.
GoesOn == idx[Path] < num /\ ~err[Path]

\* on_process, for each buffer that arrived: it writes and counts a frame,
\* also beyond the num slots of the caller.
Frame ==
  /\ alive /\ pc = "capture" /\ GoesOn
  /\ \E k \in 1..Burst :
       /\ idx' = [idx EXCEPT ![Path] = @ + k]
       /\ taken' = taken + k
       /\ alive' \in {TRUE, idx[Path] + k <= num}
  /\ UNCHANGED <<world, monitor, signalled, queue, objects, told, pc, last, dev,
                 num, err, timer, answer, history>>

\* The stream fails, or its two seconds are over (on_state_changed,
\* on_stream_param_changed, on_process, on_timeout).
StreamFails ==
  /\ alive /\ pc = "capture" /\ GoesOn
  /\ err' = [err EXCEPT ![Path] = TRUE]
  /\ UNCHANGED <<world, monitor, signalled, queue, objects, told, pc, last, dev,
                 num, idx, timer, taken, answer, alive, history>>

Expires ==
  /\ alive /\ pc = "capture" /\ ~timer
  /\ timer' = TRUE
  /\ UNCHANGED <<world, monitor, signalled, queue, objects, told, pc, last, dev,
                 num, idx, err, taken, answer, alive, history>>

OnTimeout ==
  /\ alive /\ pc = "capture" /\ GoesOn /\ timer
  /\ err' = [err EXCEPT ![Path] = TRUE]
  /\ UNCHANGED <<world, monitor, signalled, queue, objects, told, pc, last, dev,
                 num, idx, timer, taken, answer, alive, history>>

\* The frames are replied and the device is let go.
Replies ==
  /\ answer' = idx[Path]
  /\ DestroyDev(dev)
  /\ pc' = "ready" /\ dev' = None /\ timer' = FALSE
  /\ UNCHANGED <<world, monitor, signalled, queue, told, last, num, taken,
                 alive, history>>

Ends == alive /\ pc = "capture" /\ ~GoesOn /\ Replies

\* The stream does not connect, or the loop cannot be iterated.
Breaks == alive /\ pc = "capture" /\ GoesOn /\ Replies

-----------------------------------------------------------------------------

Daemon == Iterate \/ Finish \/ Expires \/ OnTimeout \/ Ends

Server ==
  \/ ServerStarts \/ ServerStops
  \/ \E p \in Paths : NodeComes(p) \/ NodeGoes(p)

Calls ==
  \E interface \in Paths \cup {Any} :
    IsAvailable(interface) \/ \E n \in Nums : Capture(interface, n)

Next ==
  \/ Registers \/ Relay \/ Receive
  \/ Daemon \/ Frame \/ StreamFails \/ Breaks
  \/ Calls \/ Server

Spec == Init /\ [][Next]_vars

\* Handlers go on, the timer of a capture expires, and epoll serves what stays
\* ready, whatever peers call.
FairSpec ==
  /\ Spec
  /\ WF_vars(Iterate \/ Finish) /\ WF_vars(Ends)
  /\ WF_vars(Expires) /\ WF_vars(OnTimeout)
  /\ SF_vars(Relay) /\ SF_vars(Receive)

-----------------------------------------------------------------------------
(* Properties *)

Settled == alive /\ pc = "ready" /\ link = "live" /\ queue = << >>

\* Once the events of a live server are handled, the objects that are not
\* marked as removed are those of its nodes: no call for another node, no call
\* made between two events and no event handled together with others has freed
\* the object of a node that is present, or left one of a node that is not
\* (pipewire.c:282-290).  Excluded: an object put over another (`replaced').
MapTrue ==
  Settled /\ ~replaced =>
    {<<p, nodes[p]>> : p \in Kept} \ removed =
      {<<p, present[p]>> : p \in {q \in Paths : present[q] # 0}}

\* Of each path whose last event was not followed by that of another one in
\* the same iteration, peers were told, by the last signal of it, whether a
\* node is present (sensor.c:78-86), and no removed node of it has an object;
\* what was skipped before is set right by its next event (pipewire.c:538-540).
ToldTrue ==
  Settled /\ ~replaced =>
    /\ \A p \in Paths \ skipped : told[p] = "add" <=> present[p] # 0
    /\ \A x \in removed : x[1] \in skipped

\* A capture replies as many frames as it took: what an earlier one of the
\* same node left in cap_set is not counted (pipewire.c:280).
OwnFrames == pc = "ready" => answer = taken

\* What a server sends is handled: no event is lost between the two modules
\* that share the monitor, unless a connection failed before, which closes the
\* eventfd between them (pipewire.c:556-558).
EventsHandled == queue # << >> ~> queue = << >> \/ ~efd \/ ~alive
=============================================================================
