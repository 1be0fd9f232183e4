-------------------------------- MODULE Idle --------------------------------
(***************************************************************************)
(* The Idle module of clightd (src/src/modules/idle.c).                    *)
(*                                                                         *)
(* A bus peer obtains an idle client, gives it a Timeout and starts it.    *)
(* The client's timerfd fires when the timeout may have elapsed; the       *)
(* handler compares the timeout with the age of the last /dev/input event  *)
(* and either declares the client idle or rearms the timer for the rest.   *)
(* One inotify watch, shared by the running clients, delivers the input.   *)
(*                                                                         *)
(* Time is relative: a timer is the number of seconds it has left, ages    *)
(* are cut at Horizon, which no timeout exceeds.  The daemon is one        *)
(* thread: `batch' is what the last epoll_wait of the event loop returned  *)
(* and what it has not dispatched yet.  A call of the same batch may stop  *)
(* or rearm a timer whose expiry is dispatched after it: the handler does  *)
(* not look at what `read' says of the timer, and takes it for expired.    *)
(***************************************************************************)
EXTENDS Integers, FiniteSets

CONSTANTS Clients,    \* the client slots that may ever be allocated (bound)
          Senders,    \* unique bus names
          Nobody,     \* the NULL sender of a slot that is not in use
          Timeouts,   \* the values bus peers write to Timeout
          Horizon,    \* ages are not counted beyond it (bound)
          MaxQueued,  \* reads that drain the inotify queue (bound)
          MaxLate,    \* Stops that come before the expiry they overtake (bound)
          MaxEvents,  \* the events one epoll_wait returns at most
          Inotify, Bus   \* the two event sources that are no client's timer

ASSUME SourcesAssumption ==
  /\ Inotify \notin Clients /\ Bus \notin Clients /\ Inotify # Bus
  /\ Nobody \notin Senders
ASSUME BoundsAssumption ==
  /\ Horizon \in Nat \ {0}
  /\ Timeouts \subseteq 0..Horizon
  /\ MaxQueued \in Nat \ {0} /\ MaxLate \in Nat /\ MaxEvents \in Nat \ {0}
ASSUME FiniteAssumption == IsFiniteSet(Clients)

VARIABLES known,            \* slots in the `clients' map
          in_use, is_idle, running, timeout, sender,  \* idle_client_t
          left,             \* seconds before the timerfd expires, or Off
          idler, running_clients,
          watch,            \* is /dev/input watched (inot_wd)?
          quiet,            \* time(NULL) - last_input
          inot,             \* reads the queued inotify events are good for
          batch,            \* events returned by epoll_wait, not dispatched
          rest,             \* time since the user last touched a device
          late,             \* history: how many Stops found that the expiry of
                            \* their client had been collected
          stale             \* history: clients whose timer was stopped or moved
                            \* after its expiry was collected, and that have not
                            \* been started without it, or woken, since then

slots  == <<known, in_use, sender>>
flags  == <<is_idle, running, timeout>>
counts == <<idler, running_clients, watch>>
past   == <<late, stale>>
vars   == <<slots, flags, counts, left, quiet, inot, batch, rest, past>>

Off == -1
Idlers  == {c \in Clients : is_idle[c]}
Runners == {c \in Clients : running[c]}
Expired == {c \in Clients : left[c] = 0}

TypeOK ==
  /\ known \subseteq Clients
  /\ in_use \in [Clients -> BOOLEAN]
  /\ is_idle \in [Clients -> BOOLEAN]
  /\ running \in [Clients -> BOOLEAN]
  /\ timeout \in [Clients -> 0..Horizon]
  /\ sender \in [Clients -> Senders \cup {Nobody}]
  /\ left \in [Clients -> {Off} \cup (0..Horizon)]
  /\ idler \in Int
  /\ running_clients \in Int
  /\ watch \in BOOLEAN
  /\ quiet \in 0..Horizon
  /\ inot \in 0..MaxQueued
  /\ batch \subseteq Clients \cup {Inotify, Bus}
  /\ rest \in 0..Horizon
  /\ late \in Nat
  /\ stale \subseteq Clients

\* last_input starts at 0, so the age of the last input is beyond any timeout.
Init ==
  /\ known = {}
  /\ in_use = [c \in Clients |-> FALSE]
  /\ is_idle = [c \in Clients |-> FALSE]
  /\ running = [c \in Clients |-> FALSE]
  /\ timeout = [c \in Clients |-> 0]
  /\ sender = [c \in Clients |-> Nobody]
  /\ left = [c \in Clients |-> Off]
  /\ idler = 0 /\ running_clients = 0 /\ watch = FALSE
  /\ quiet = Horizon /\ inot = 0 /\ batch = {} /\ rest = 0
  /\ late = 0 /\ stale = {}

-----------------------------------------------------------------------------
(* Helpers *)

\* timerfd_settime: a zero it_value disarms the timer.
Arm(t) == IF t = 0 THEN Off ELSE t

Older(age) == IF age = Horizon THEN age ELSE age + 1
Queue(n) == IF n = MaxQueued THEN n ELSE n + 1

\* Slots GetClient may return: a free one of the pool, else a new one.
Available ==
  LET free == {c \in known : ~in_use[c]}
  IN  IF free # {} THEN free ELSE Clients \ known

\* validate_client: the slot exists, is in use, and the caller requested it.
Valid(s, c) == c \in known /\ in_use[c] /\ sender[c] = s

\* Only stopped clients with a Timeout start, only stopped ones are removed.
CanRestart(c) == timeout[c] > 0
CanStart(c) == timeout[c] > 0 /\ ~running[c]

RemovableAlways(c) == c \in known
Removable(c) == ~running[c]

\* idler once c has left idle (leave_idle).
AlwaysWithout(c) == idler - 1
Without(c) == IF is_idle[c] THEN idler - 1 ELSE idler

\* No input for the timeout of c.
QuietSooner(c) == quiet + 1 >= timeout[c]
QuietLater(c) == quiet > timeout[c]
Quiet(c) == quiet >= timeout[c]

\* The clients whose timer counts towards idle.
Counting(c) == running[c] /\ ~is_idle[c]

\* What set_timeout leaves in the timer of such a client: the new timeout less
\* the time elapsed, but at least a nanosecond, as zero would disarm it.
Elapsed(c) == timeout[c] - (IF left[c] = Off THEN 0 ELSE left[c])
RetimedDisarmed(c, t) == Arm(IF t <= Elapsed(c) THEN 0 ELSE t - Elapsed(c))
Retimed(c, t) == IF t <= Elapsed(c) THEN 0 ELSE t - Elapsed(c)

-----------------------------------------------------------------------------
(* The environment: time passes, the user acts. *)

Tick ==
  /\ left' = [c \in Clients |-> IF left[c] > 0 THEN left[c] - 1 ELSE left[c]]
  /\ quiet' = Older(quiet)
  /\ rest' = Older(rest)
  /\ UNCHANGED <<slots, flags, counts, inot, batch, past>>

Input ==
  /\ rest' = 0
  /\ inot' = IF watch THEN Queue(inot) ELSE inot
  /\ UNCHANGED <<slots, flags, counts, left, quiet, batch, past>>

-----------------------------------------------------------------------------
(* The event loop *)

Due == Expired \cup (IF inot > 0 THEN {Inotify} ELSE {})

\* epoll_wait returns all that is ready, or as much as the loop asks for; a
\* call may have arrived on the bus or not.
Wait ==
  /\ batch = {}
  /\ \E ready \in SUBSET (Due \cup {Bus}) :
       /\ ready # {}
       /\ Due \subseteq ready \/ Cardinality(ready) = MaxEvents
       /\ batch' = ready
  /\ UNCHANGED <<slots, flags, counts, left, quiet, inot, rest, past>>

\* receive, inotify branch: input wakes every idle client (leave_idle).
InputEvent ==
  /\ Inotify \in batch
  /\ inot' = inot - 1
  /\ quiet' = 0
  /\ IF idler # 0
       THEN /\ is_idle' = [c \in Clients |-> FALSE]
            /\ idler' = idler - Cardinality(Idlers)
            /\ left' = [c \in Clients |->
                          IF is_idle[c] THEN Arm(timeout[c]) ELSE left[c]]
       ELSE UNCHANGED <<is_idle, idler, left>>
  /\ batch' = batch \ {Inotify}
  /\ stale' = stale \ Runners
  /\ UNCHANGED <<slots, running, timeout, running_clients, watch, rest, late>>

\* receive, timer branch: the client is idle, or its timer is rearmed.
TimerEvent(c) ==
  /\ c \in batch
  /\ is_idle' = [is_idle EXCEPT ![c] = Quiet(c)]
  /\ idler' = IF Quiet(c) THEN idler + 1 ELSE idler
  /\ left' = [left EXCEPT ![c] = IF Quiet(c) THEN Off
                                 ELSE Arm(timeout[c] - quiet)]
  /\ batch' = batch \ {c}
  /\ UNCHANGED <<slots, running, timeout, running_clients, watch,
                 quiet, inot, rest, past>>

\* The bus descriptor: any number of method calls, then back to the batch.
BusDone ==
  /\ Bus \in batch
  /\ batch' = batch \ {Bus}
  /\ UNCHANGED <<slots, flags, counts, left, quiet, inot, rest, past>>

-----------------------------------------------------------------------------
(* Method calls: a call that a guard refuses replies an error and changes   *)
(* nothing.                                                                *)

\* GetClient, once authorized.
GetClient(s, c) ==
  /\ Bus \in batch
  /\ c \in Available
  /\ known' = known \cup {c}
  /\ in_use' = [in_use EXCEPT ![c] = TRUE]
  /\ sender' = [sender EXCEPT ![c] = s]
  /\ left' = [left EXCEPT ![c] = Off]
  /\ UNCHANGED <<flags, counts, quiet, inot, batch, rest, past>>

\* DestroyClient: only a stopped client; the slot is zeroed and stays in the
\* map, its closed timer yields no further event.
DestroyClient(s, c) ==
  /\ Bus \in batch
  /\ Valid(s, c) /\ Removable(c)
  /\ in_use' = [in_use EXCEPT ![c] = FALSE]
  /\ is_idle' = [is_idle EXCEPT ![c] = FALSE]
  /\ timeout' = [timeout EXCEPT ![c] = 0]
  /\ sender' = [sender EXCEPT ![c] = Nobody]
  /\ left' = [left EXCEPT ![c] = Off]
  /\ batch' = batch \ {c}
  /\ stale' = stale \ {c}
  /\ UNCHANGED <<known, running, counts, quiet, inot, rest, late>>

StartClient(s, c) ==
  /\ Bus \in batch
  /\ Valid(s, c) /\ CanStart(c)
  /\ left' = [left EXCEPT ![c] = timeout[c]]
  /\ running' = [running EXCEPT ![c] = TRUE]
  /\ running_clients' = running_clients + 1
  /\ watch' = (watch \/ running_clients' = 1)
  /\ stale' = IF c \in batch \/ is_idle[c] THEN stale ELSE stale \ {c}
  /\ UNCHANGED <<slots, is_idle, timeout, idler, quiet, inot, batch, rest, late>>

\* StopClient leaves idle, disarms, and drops the watch with the last running
\* client; removing a watch queues an IN_IGNORED event.
StopClient(s, c) ==
  /\ Bus \in batch
  /\ Valid(s, c) /\ running[c]
  /\ IF c \in batch
       THEN late < MaxLate /\ late' = late + 1 /\ stale' = stale \cup {c}
       ELSE late' = late /\ stale' = stale \ {c}
  /\ is_idle' = [is_idle EXCEPT ![c] = FALSE]
  /\ idler' = Without(c)
  /\ left' = [left EXCEPT ![c] = Off]
  /\ running' = [running EXCEPT ![c] = FALSE]
  /\ running_clients' = running_clients - 1
  /\ IF running_clients' = 0
       THEN watch' = FALSE /\ inot' = Queue(inot)
       ELSE UNCHANGED <<watch, inot>>
  /\ UNCHANGED <<slots, timeout, quiet, batch, rest>>

\* A running client that is not idle has its timer moved by the difference.
SetTimeout(s, c, t) ==
  /\ Bus \in batch
  /\ Valid(s, c)
  /\ timeout' = [timeout EXCEPT ![c] = t]
  /\ left' = IF Counting(c)
               THEN [left EXCEPT ![c] = Retimed(c, t)]
               ELSE left
  /\ stale' = IF c \in batch /\ left'[c] # left[c] THEN stale \cup {c} ELSE stale
  /\ UNCHANGED <<slots, is_idle, running, counts, quiet, inot, batch, rest, late>>

Call(s, c) ==
  \/ GetClient(s, c)
  \/ DestroyClient(s, c)
  \/ StartClient(s, c)
  \/ StopClient(s, c)
  \/ \E t \in Timeouts : SetTimeout(s, c, t)

\* One step of the dispatch of the batch.
Dispatch == InputEvent \/ BusDone \/ \E c \in Clients : TimerEvent(c)

Next ==
  \/ Tick
  \/ Input
  \/ Wait
  \/ Dispatch
  \/ \E s \in Senders, c \in Clients : Call(s, c)

Spec == Init /\ [][Next]_vars

\* Time goes on; the loop waits, and dispatches all that it collected.  That a
\* peer calls again and again does not keep the bus from being done with.
Fairness == WF_vars(Tick) /\ WF_vars(Wait) /\ WF_vars(Dispatch)

FairSpec == Spec /\ Fairness

-----------------------------------------------------------------------------
(* Properties *)

\* running_clients is the number of running clients, and /dev/input is watched
\* exactly while there is one (idle.c:39, Start and Stop): a miscount would
\* leave running clients deaf, or a stopped daemon awake at each key press.
WatchMatchesRunners ==
  /\ running_clients = Cardinality(Runners)
  /\ watch <=> Runners # {}

\* idler never undercounts: receive tests it before it looks for idle clients,
\* so an undercount would let input leave a client idle.
IdlerCovers == idler >= Cardinality(Idlers)

\* idler overcounts only by expiries that were dispatched after the Stop of
\* their client (idle.c:105-114), and by at most one for each of them, however
\* often that client is woken, started or destroyed afterwards.
IdlerDrift == idler <= Cardinality(Idlers) + late

\* What the comment at idle.c:38 says of idler: how many clients are idle.
IdlerCount == idler = Cardinality(Idlers)

\* A running client that is not idle, and whose Timeout is not 0, has a timer
\* that will fire: none of Start, Timeout, input and rearming loses it.
TimerArmed ==
  \A c \in Clients :
    running[c] /\ ~is_idle[c] /\ timeout[c] > 0 => left[c] # Off

\* No peer takes over a client another one holds: GetClient hands out slots
\* that are free, whatever was destroyed and requested before.
OwnerKept ==
  [][\A c \in Clients : in_use[c] /\ in_use'[c] => sender'[c] = sender[c]]_vars

\* A running client is declared idle only when the user has really been away
\* for its Timeout, unless input is still queued: although the watch, and with
\* it last_input, is off while nothing runs, and Timeout changes under way.
\* It does not hold of a stale client: the expiry that is dispatched after a
\* Stop or a new Timeout counts from a last_input that may be too old, and the
\* handler rearms the timer from it.
IdleMeansAway ==
  [][\A c \in Clients :
       running[c] /\ c \notin stale /\ ~is_idle[c] /\ is_idle'[c] /\ inot = 0
         => rest >= timeout[c]]_vars

\* A user who stays away makes a running client with a Timeout stay idle.
AwayBecomesIdle ==
  \A c \in Clients, t \in Timeouts \ {0} :
    <>[](running[c] /\ timeout[c] = t /\ rest = Horizon) => <>[]is_idle[c]

\* Input that finds a client idle wakes it, whatever the bus does meanwhile.
InputWakes ==
  \A c \in Clients : (is_idle[c] /\ inot > 0) ~> ~is_idle[c]

-----------------------------------------------------------------------------
(* The abstract interface *)

\* A stopped client is late while an expiry that its Stop overtook, or a timer
\* that the handler armed for it since, may still declare it idle.
Late(c) == left[c] # Off \/ c \in batch

Phase(c) ==
  IF ~in_use[c] THEN "absent"
  ELSE IF running[c] THEN IF is_idle[c] THEN "idle" ELSE "active"
  ELSE IF is_idle[c] THEN "late idle"
  ELSE IF Late(c) THEN "late" ELSE "stopped"

Abstract == INSTANCE IdleClient WITH phase <- [c \in Clients |-> Phase(c)],
                                     owner <- sender

\* Every step of the module is a step of the interface, or invisible to it:
\* events are batched, so that the interface has late clients, but a client is
\* idle only between a Start and a Stop or as a late one, a stopped client
\* that is not late stays silent until it is started, and no slot carries its
\* owner, its timer or its state over to the next peer.
ImplementsIdleClient == Abstract!Spec
=============================================================================
