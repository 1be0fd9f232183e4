----------------------------- MODULE IdleProofs -----------------------------
(***************************************************************************)
(* Proofs about Idle, for every set of clients and peers, every bound and  *)
(* every order in which the events of one epoll_wait are dispatched.       *)
(***************************************************************************)
EXTENDS Idle, FiniteSetTheorems, TLAPS

\* A timer never holds more than the Timeout it was set for, while it counts.
LeftBounded ==
  \A c \in Clients : running[c] /\ ~is_idle[c] => left[c] <= timeout[c]

\* An inotify event is dispatched only while there is something to read.
InotifyReady == Inotify \in batch => inot > 0

\* Only slots of the map are in use, and only clients in use run.
RunnersInUse ==
  \A c \in Clients :
    /\ in_use[c] => c \in known
    /\ running[c] => c \in known /\ in_use[c]

\* The part of the inductive invariant that every theorem uses.
TypeInv == TypeOK /\ LeftBounded /\ InotifyReady /\ RunnersInUse

\* Retimed stays between an expired timer and the new timeout, and does not
\* lengthen what the timer has run.
LEMMA RetimedLemma ==
  ASSUME TypeOK, LeftBounded, NEW c \in Clients, NEW t \in 0..Horizon,
         running[c], ~is_idle[c]
  PROVE  /\ Retimed(c, t) \in 0..Horizon /\ Retimed(c, t) <= t
         /\ TimerArmed =>
              t - Retimed(c, t) <=
                IF left[c] = Off THEN 0 ELSE timeout[c] - left[c]
  <1>1. Retimed(c, t) \in 0..Horizon /\ Retimed(c, t) <= t
    BY BoundsAssumption DEF TypeOK, LeftBounded, Retimed, Elapsed, Off
  <1>2. TimerArmed =>
          t - Retimed(c, t) <= IF left[c] = Off THEN 0 ELSE timeout[c] - left[c]
    BY BoundsAssumption
    DEF TypeOK, LeftBounded, TimerArmed, Retimed, Elapsed, Off
  <1>3. QED
    BY <1>1, <1>2

LEMMA TypeInvariant == Spec => []TypeInv
  <1>1. Init => TypeInv
    <2> SUFFICES ASSUME Init PROVE TypeInv
      OBVIOUS
    <2>1. TypeOK
      <3>1. watch \in BOOLEAN
        BY Zenon DEF Init
      <3>2. quiet \in 0..Horizon /\ rest \in 0..Horizon /\ inot \in 0..MaxQueued
        BY BoundsAssumption DEF Init
      <3>3. /\ timeout \in [Clients -> 0..Horizon]
            /\ left \in [Clients -> {Off} \cup (0..Horizon)]
        BY BoundsAssumption DEF Init
      <3>4. QED
        BY <3>1, <3>2, <3>3 DEF Init, TypeOK
    <2>2. LeftBounded /\ InotifyReady /\ RunnersInUse
      BY DEF Init, LeftBounded, InotifyReady, RunnersInUse
    <2>3. QED
      BY <2>1, <2>2 DEF TypeInv
  <1>2. TypeInv /\ [Next]_vars => TypeInv'
    <2> SUFFICES ASSUME TypeInv, [Next]_vars PROVE TypeInv'
      OBVIOUS
    <2> USE BoundsAssumption, SourcesAssumption
        DEF TypeInv, TypeOK, LeftBounded, InotifyReady, RunnersInUse, Off
    <2>1. CASE Tick
      BY <2>1 DEF Tick, Older, slots, flags, counts, past
    <2>2. CASE Input
      BY <2>2 DEF Input, Queue, slots, flags, counts, past
    <2>3. CASE Wait
      BY <2>3 DEF Wait, Due, Expired, slots, flags, counts, past
    <2>4. CASE InputEvent
      <3>1. idler' \in Int
        BY <2>4, FiniteAssumption, FS_Subset, FS_CardinalityType
        DEF InputEvent, Idlers
      <3>2. left' \in [Clients -> {Off} \cup (0..Horizon)]
        BY <2>4 DEF InputEvent, Arm
      <3>3. is_idle' \in [Clients -> BOOLEAN]
        BY <2>4 DEF InputEvent
      <3>4. LeftBounded'
        BY <2>4 DEF InputEvent, Arm
      <3>5. inot' \in 0..MaxQueued /\ InotifyReady' /\ quiet' \in 0..Horizon
        BY <2>4 DEF InputEvent
      <3>6. QED
        BY <2>4, <3>1, <3>2, <3>3, <3>4, <3>5 DEF InputEvent, slots
    <2>5. CASE BusDone
      BY <2>5 DEF BusDone, slots, flags, counts, past
    <2>6. ASSUME NEW c \in Clients, TimerEvent(c) PROVE TypeInv'
      BY <2>6 DEF TimerEvent, Quiet, Arm, slots, past
    <2>7. ASSUME NEW s \in Senders, NEW c \in Clients, Call(s, c) PROVE TypeInv'
      <3>1. CASE GetClient(s, c)
        BY <3>1 DEF GetClient, Available, flags, counts, past
      <3>2. CASE DestroyClient(s, c)
        BY <3>2 DEF DestroyClient, Removable, counts
      <3>3. CASE StartClient(s, c)
        BY <3>3 DEF StartClient, CanStart, Valid, slots
      <3>4. CASE StopClient(s, c)
        <4>1. inot' \in 0..MaxQueued /\ InotifyReady'
          BY <3>4 DEF StopClient, Without, Queue
        <4>2. LeftBounded' /\ RunnersInUse'
          BY <3>4 DEF StopClient, Without, slots
        <4>3. watch' \in BOOLEAN
          BY <3>4, Zenon DEF StopClient, Without
        <4>4. running_clients' \in Int /\ idler' \in Int
          BY <3>4 DEF StopClient, Without
        <4>5. QED
          BY <3>4, <4>1, <4>2, <4>3, <4>4 DEF StopClient, Without, slots
      <3>5. ASSUME NEW t \in Timeouts, SetTimeout(s, c, t) PROVE TypeInv'
        <4>1. t \in 0..Horizon
          OBVIOUS
        <4>2. running[c] /\ ~is_idle[c] =>
                Retimed(c, t) \in 0..Horizon /\ Retimed(c, t) <= t
          BY <4>1, RetimedLemma
        <4>3. QED
          BY <3>5, <4>1, <4>2 DEF SetTimeout, Counting, slots, counts
      <3>6. QED
        BY <2>7, <3>1, <3>2, <3>3, <3>4, <3>5 DEF Call
    <2>8. CASE UNCHANGED vars
      BY <2>8 DEF vars, slots, flags, counts, past
    <2>9. QED
      BY <2>1, <2>2, <2>3, <2>4, <2>5, <2>6, <2>7, <2>8 DEF Next, Dispatch
  <1>3. QED
    BY <1>1, <1>2, PTL DEF Spec

\* Every variable keeps its type.  That a timer stays within Horizon needs
\* that Timeout moves it by a difference that never exceeds what is left.
THEOREM TypeCorrect == Spec => []TypeOK
  <1>1. TypeInv => TypeOK
    BY DEF TypeInv
  <1>2. QED
    BY <1>1, TypeInvariant, PTL

-----------------------------------------------------------------------------
(* Counting *)

\* What adding and removing a client does to the size of a set of clients.
LEMMA CountLemma ==
  ASSUME NEW S \in SUBSET Clients
  PROVE  /\ Cardinality(S) \in Nat
         /\ Cardinality(S) = 0 <=> S = {}
         /\ \A c \in Clients :
              /\ Cardinality(S \cup {c}) =
                   IF c \in S THEN Cardinality(S) ELSE Cardinality(S) + 1
              /\ Cardinality(S \ {c}) =
                   IF c \in S THEN Cardinality(S) - 1 ELSE Cardinality(S)
  <1>1. IsFiniteSet(S) /\ Cardinality(S) \in Nat
    BY FiniteAssumption, FS_Subset, FS_CardinalityType
  <1>2. QED
    BY <1>1, FS_EmptySet, FS_AddElement, FS_RemoveElement

\* The watch is on exactly while a client runs, and the counter that decides
\* when to add and to remove it is right.
THEOREM WatchCorrect == Spec => []WatchMatchesRunners
  <1>1. Init => WatchMatchesRunners
    <2> SUFFICES ASSUME Init PROVE WatchMatchesRunners
      OBVIOUS
    <2>1. Runners = {}
      BY DEF Init, Runners
    <2>2. QED
      BY <2>1, FS_EmptySet DEF Init, WatchMatchesRunners
  <1>2. TypeInv /\ WatchMatchesRunners /\ [Next]_vars => WatchMatchesRunners'
    <2> SUFFICES ASSUME TypeInv, WatchMatchesRunners, [Next]_vars
                 PROVE  WatchMatchesRunners'
      OBVIOUS
    <2> DEFINE Same == UNCHANGED <<running, running_clients, watch>>
    <2>1. Same => WatchMatchesRunners'
      BY DEF WatchMatchesRunners, Runners
    <2>2. ASSUME NEW s \in Senders, NEW c \in Clients, StartClient(s, c)
          PROVE  WatchMatchesRunners'
      <3>1. Runners' = Runners \cup {c} /\ c \notin Runners
        BY <2>2 DEF StartClient, CanStart, Runners, TypeInv, TypeOK
      <3>2. Cardinality(Runners') = Cardinality(Runners) + 1
        BY <3>1, CountLemma DEF Runners
      <3>3. running_clients' = Cardinality(Runners')
        BY <2>2, <3>2 DEF StartClient, WatchMatchesRunners
      <3>4. running_clients = 0 <=> Runners = {}
        BY CountLemma DEF WatchMatchesRunners, Runners
      <3>5. watch'
        <4>1. watch' = (watch \/ running_clients' = 1)
          BY <2>2, Zenon DEF StartClient
        <4>2. CASE Runners = {}
          <5>1. running_clients' = 1
            BY <2>2, <3>4, <4>2 DEF StartClient
          <5>2. QED
            BY <4>1, <5>1, Zenon
        <4>3. CASE Runners # {}
          BY <4>1, <4>3, Zenon DEF WatchMatchesRunners
        <4>4. QED
          BY <4>2, <4>3
      <3>6. QED
        BY <3>1, <3>3, <3>5 DEF WatchMatchesRunners
    <2>3. ASSUME NEW s \in Senders, NEW c \in Clients, StopClient(s, c)
          PROVE  WatchMatchesRunners'
      <3>1. Runners' = Runners \ {c} /\ c \in Runners
        BY <2>3 DEF StopClient, Without, Runners, TypeInv, TypeOK
      <3>2. Cardinality(Runners') = Cardinality(Runners) - 1
        BY <3>1, CountLemma DEF Runners
      <3>3. running_clients' = Cardinality(Runners')
        BY <2>3, <3>2 DEF StopClient, Without, WatchMatchesRunners
      <3>4. running_clients' = 0 <=> Runners' = {}
        BY <3>1, <3>3, CountLemma DEF Runners
      <3>5. watch' <=> running_clients' # 0
        <4>1. watch
          BY <3>1, Zenon DEF WatchMatchesRunners
        <4>2. CASE running_clients' = 0
          BY <2>3, <4>2 DEF StopClient, Without
        <4>3. CASE running_clients' # 0
          <5>1. UNCHANGED watch
            BY <2>3, <4>3, Zenon DEF StopClient, Without
          <5>2. QED
            BY <4>1, <4>3, <5>1, Zenon
        <4>4. QED
          BY <4>2, <4>3
      <3>6. QED
        BY <3>3, <3>4, <3>5 DEF WatchMatchesRunners
    <2>4. ASSUME NEW s \in Senders, NEW c \in Clients, Call(s, c)
          PROVE  WatchMatchesRunners'
      <3>1. CASE GetClient(s, c)
        BY <3>1, <2>1 DEF GetClient, flags, counts
      <3>2. CASE DestroyClient(s, c)
        BY <3>2, <2>1 DEF DestroyClient, Removable, counts
      <3>3. ASSUME NEW t \in Timeouts, SetTimeout(s, c, t)
            PROVE  WatchMatchesRunners'
        BY <3>3, <2>1 DEF SetTimeout, Counting, counts
      <3>4. QED
        BY <2>2, <2>3, <2>4, <3>1, <3>2, <3>3 DEF Call
    <2>5. ASSUME NEW c \in Clients, TimerEvent(c) PROVE WatchMatchesRunners'
      BY <2>5, <2>1 DEF TimerEvent, Quiet, Arm
    <2>6. CASE Tick \/ Input \/ Wait \/ InputEvent \/ BusDone
      BY <2>6, <2>1 DEF Tick, Input, Wait, InputEvent, BusDone, flags, counts
    <2>7. CASE UNCHANGED vars
      BY <2>7, <2>1 DEF vars, flags, counts
    <2>8. QED
      BY <2>4, <2>5, <2>6, <2>7 DEF Next, Dispatch
  <1>3. QED
    BY <1>1, <1>2, TypeInvariant, PTL DEF Spec

\* No running client with a Timeout is left without a timer, however the bus
\* calls, the input and the timer events are interleaved or batched.
THEOREM TimersArmed == Spec => []TimerArmed
  <1>1. Init => TimerArmed
    BY DEF Init, TimerArmed
  <1>2. TypeInv /\ TimerArmed /\ [Next]_vars => TimerArmed'
    <2> SUFFICES ASSUME TypeInv, TimerArmed, [Next]_vars PROVE TimerArmed'
      OBVIOUS
    <2> USE DEF TimerArmed, TypeInv, TypeOK
    <2>1. CASE Tick
      BY <2>1 DEF Tick, flags, Off
    <2>2. CASE InputEvent
      BY <2>2, BoundsAssumption DEF InputEvent, Arm, Off
    <2>3. CASE Input \/ Wait \/ BusDone \/ UNCHANGED vars
      BY <2>3 DEF Input, Wait, BusDone, vars, flags
    <2>4. ASSUME NEW c \in Clients, TimerEvent(c) PROVE TimerArmed'
      BY <2>4, BoundsAssumption DEF TimerEvent, Quiet, Arm, Off
    <2>5. ASSUME NEW s \in Senders, NEW c \in Clients, Call(s, c)
          PROVE  TimerArmed'
      <3>1. CASE GetClient(s, c)
        BY <3>1 DEF GetClient, Available, RunnersInUse, flags
      <3>2. CASE DestroyClient(s, c)
        BY <3>2 DEF DestroyClient, Removable
      <3>3. CASE StartClient(s, c)
        BY <3>3, BoundsAssumption DEF StartClient, CanStart, Off
      <3>4. CASE StopClient(s, c)
        BY <3>4 DEF StopClient, Without
      <3>5. ASSUME NEW t \in Timeouts, SetTimeout(s, c, t) PROVE TimerArmed'
        <4>1. t \in 0..Horizon
          BY BoundsAssumption
        <4>2. running[c] /\ ~is_idle[c] => Retimed(c, t) \in 0..Horizon
          BY <4>1, RetimedLemma
        <4>3. QED
          BY <3>5, <4>1, <4>2, BoundsAssumption DEF SetTimeout, Counting, Off
      <3>6. QED
        BY <2>5, <3>1, <3>2, <3>3, <3>4, <3>5 DEF Call
    <2>6. QED
      BY <2>1, <2>2, <2>3, <2>4, <2>5 DEF Next, Dispatch
  <1>3. QED
    BY <1>1, <1>2, TypeInvariant, PTL DEF Spec

\* The counter that receive tests never misses an idle client, even when
\* several events are dispatched from one epoll_wait.
THEOREM IdlersCovered == Spec => []IdlerCovers
  <1>1. Init => IdlerCovers
    <2> SUFFICES ASSUME Init PROVE IdlerCovers
      OBVIOUS
    <2>1. Idlers = {}
      BY DEF Init, Idlers
    <2>2. QED
      BY <2>1, FS_EmptySet DEF Init, IdlerCovers
  <1>2. TypeInv /\ IdlerCovers /\ [Next]_vars => IdlerCovers'
    <2> SUFFICES ASSUME TypeInv, IdlerCovers, [Next]_vars PROVE IdlerCovers'
      OBVIOUS
    <2> USE DEF TypeInv, TypeOK
    <2>a. /\ Cardinality(Idlers) \in Nat
          /\ \A c \in Clients :
               /\ Cardinality(Idlers \cup {c}) =
                    IF c \in Idlers THEN Cardinality(Idlers)
                                   ELSE Cardinality(Idlers) + 1
               /\ Cardinality(Idlers \ {c}) =
                    IF c \in Idlers THEN Cardinality(Idlers) - 1
                                   ELSE Cardinality(Idlers)
      BY CountLemma DEF Idlers
    <2>1. UNCHANGED <<is_idle, idler>> => IdlerCovers'
      BY DEF IdlerCovers, Idlers
    <2>2. CASE InputEvent
      <3>1. CASE idler # 0
        <4>1. Idlers' = {}
          BY <2>2, <3>1 DEF InputEvent, Idlers
        <4>2. QED
          BY <2>2, <2>a, <3>1, <4>1, FS_EmptySet DEF InputEvent, IdlerCovers
      <3>2. CASE idler = 0
        BY <2>2, <3>2, <2>1 DEF InputEvent
      <3>3. QED
        BY <3>1, <3>2
    <2>3. ASSUME NEW c \in Clients, TimerEvent(c) PROVE IdlerCovers'
      <3>1. CASE quiet >= timeout[c]
        <4>1. Idlers' = Idlers \cup {c}
          BY <2>3, <3>1 DEF TimerEvent, Quiet, Arm, Idlers
        <4>2. \/ Cardinality(Idlers') = Cardinality(Idlers)
              \/ Cardinality(Idlers') = Cardinality(Idlers) + 1
          BY <2>a, <4>1, Zenon
        <4>3. idler' = idler + 1
          BY <2>3, <3>1 DEF TimerEvent, Quiet
        <4>4. Cardinality(Idlers') \in Nat
          BY <4>1, CountLemma DEF Idlers
        <4>5. QED
          BY <2>a, <4>2, <4>3, <4>4 DEF IdlerCovers
      <3>2. CASE ~(quiet >= timeout[c])
        <4>1. Idlers' = Idlers \ {c}
          BY <2>3, <3>2 DEF TimerEvent, Quiet, Arm, Idlers
        <4>2. \/ Cardinality(Idlers') = Cardinality(Idlers)
              \/ Cardinality(Idlers') = Cardinality(Idlers) - 1
          BY <2>a, <4>1, Zenon
        <4>3. idler' = idler
          BY <2>3, <3>2 DEF TimerEvent, Quiet
        <4>4. Cardinality(Idlers') \in Nat
          BY <4>1, CountLemma DEF Idlers
        <4>5. QED
          BY <2>a, <4>2, <4>3, <4>4 DEF IdlerCovers
      <3>3. QED
        BY <3>1, <3>2
    <2>4. ASSUME NEW s \in Senders, NEW c \in Clients, Call(s, c)
          PROVE  IdlerCovers'
      <3>1. CASE DestroyClient(s, c)
        <4>1. Idlers' = Idlers \ {c}
          BY <3>1 DEF DestroyClient, Removable, Idlers
        <4>2. Cardinality(Idlers') \in Nat
          BY <4>1, CountLemma DEF Idlers
        <4>3. Cardinality(Idlers') <= Cardinality(Idlers)
          BY <2>a, <4>1
        <4>4. QED
          BY <2>a, <3>1, <4>2, <4>3 DEF DestroyClient, counts, IdlerCovers
      <3>2. CASE StopClient(s, c)
        <4>1. Idlers' = Idlers \ {c} /\ (is_idle[c] <=> c \in Idlers)
          BY <3>2 DEF StopClient, Without, Idlers
        <4>2. Cardinality(Idlers') =
                IF is_idle[c] THEN Cardinality(Idlers) - 1
                              ELSE Cardinality(Idlers)
          BY <2>a, <4>1
        <4>3. QED
          BY <2>a, <3>2, <4>2 DEF StopClient, Without, IdlerCovers
      <3>3. CASE GetClient(s, c) \/ StartClient(s, c)
        BY <3>3, <2>1 DEF GetClient, StartClient, flags, counts
      <3>4. ASSUME NEW t \in Timeouts, SetTimeout(s, c, t) PROVE IdlerCovers'
        BY <3>4, <2>1 DEF SetTimeout, Counting, counts
      <3>5. QED
        BY <2>4, <3>1, <3>2, <3>3, <3>4 DEF Call
    <2>5. CASE Tick \/ Input \/ Wait \/ BusDone \/ UNCHANGED vars
      BY <2>5, <2>1 DEF Tick, Input, Wait, BusDone, vars, flags, counts
    <2>6. QED
      BY <2>2, <2>3, <2>4, <2>5 DEF Next, Dispatch
  <1>3. QED
    BY <1>1, <1>2, TypeInvariant, PTL DEF Spec

\* A client that is in use keeps its owner: GetClient hands out a slot that is
\* not in use, and only DestroyClient clears one (find_available_client).
THEOREM OwnersKept == Spec => OwnerKept
  <1>1. ASSUME TypeInv, [Next]_vars, NEW c \in Clients, in_use[c], in_use'[c]
        PROVE  sender'[c] = sender[c]
    <2> USE <1>1 DEF TypeInv, TypeOK
    <2>1. ASSUME NEW s \in Senders, NEW d \in Clients, Call(s, d)
          PROVE  sender'[c] = sender[c]
      <3>1. CASE GetClient(s, d)
        <4>1. d # c
          BY <3>1 DEF GetClient, Available, RunnersInUse
        <4>2. QED
          BY <3>1, <4>1 DEF GetClient
      <3>2. CASE DestroyClient(s, d)
        BY <3>2 DEF DestroyClient
      <3>3. CASE StartClient(s, d) \/ StopClient(s, d)
        BY <3>3 DEF StartClient, StopClient, slots
      <3>4. ASSUME NEW t \in Timeouts, SetTimeout(s, d, t)
            PROVE  sender'[c] = sender[c]
        BY <3>4 DEF SetTimeout, slots
      <3>5. QED
        BY <2>1, <3>1, <3>2, <3>3, <3>4 DEF Call
    <2>2. CASE InputEvent \/ \E d \in Clients : TimerEvent(d)
      BY <2>2 DEF InputEvent, TimerEvent, slots
    <2>3. CASE Tick \/ Input \/ Wait \/ BusDone \/ UNCHANGED vars
      BY <2>3 DEF Tick, Input, Wait, BusDone, vars, slots
    <2>4. QED
      BY <1>1, <2>1, <2>2, <2>3 DEF Next, Dispatch
  <1>2. TypeInv /\ [Next]_vars =>
          \A c \in Clients : in_use[c] /\ in_use'[c] => sender'[c] = sender[c]
    BY <1>1
  <1>3. QED
    BY <1>2, TypeInvariant, PTL DEF Spec, OwnerKept

-----------------------------------------------------------------------------
(* Expiries that are dispatched after the Stop of their client *)

\* Clients that may make idler overcount: a stopped one that is idle or still
\* has a timer to come, and one that was started idle, whose timer will declare
\* it idle again.
Owed(c) == IF running[c] THEN is_idle[c] /\ Late(c) ELSE is_idle[c] \/ Late(c)
Debtors == {c \in Clients : Owed(c)}


\* A stopped idle client has no timer, a free slot is clean, and who is owed
\* has been marked as stale.
Marks ==
  \A c \in Clients :
    /\ ~running[c] /\ is_idle[c] => ~Late(c)
    /\ ~in_use[c] => ~is_idle[c] /\ ~Late(c)
    /\ Owed(c) => c \in stale

LEMMA MarksInvariant == Spec => []Marks
  <1>1. Init => Marks
    BY DEF Init, Marks, Owed, Late
  <1>2. TypeInv /\ IdlerCovers /\ Marks /\ [Next]_vars => Marks'
    <2> SUFFICES ASSUME TypeInv, IdlerCovers, Marks, [Next]_vars PROVE Marks'
      OBVIOUS
    <2> USE SourcesAssumption DEF TypeInv, TypeOK, Marks, Owed, Late, Off
    <2>1. CASE Tick
      BY <2>1 DEF Tick, slots, flags, past
    <2>2. CASE Wait
      BY <2>2 DEF Wait, Due, Expired, slots, flags, past
    <2>3. CASE Input \/ BusDone \/ UNCHANGED vars
      BY <2>3 DEF Input, BusDone, vars, slots, flags, past
    <2>4. CASE InputEvent
      <3>1. CASE idler # 0
        BY <2>4, <3>1 DEF InputEvent, Arm, Runners, slots
      <3>2. CASE idler = 0
        <4>1. Idlers = {}
          BY <3>2, CountLemma DEF IdlerCovers, Idlers
        <4>2. \A c \in Clients : ~is_idle[c]
          BY <4>1 DEF Idlers
        <4>3. QED
          BY <2>4, <3>2, <4>2 DEF InputEvent, Runners, slots
      <3>3. QED
        BY <3>1, <3>2
    <2>5. ASSUME NEW c \in Clients, TimerEvent(c) PROVE Marks'
      BY <2>5 DEF TimerEvent, Quiet, Arm, slots, past
    <2>6. ASSUME NEW s \in Senders, NEW c \in Clients, Call(s, c) PROVE Marks'
      <3>1. CASE GetClient(s, c)
        BY <3>1 DEF GetClient, flags, past
      <3>2. CASE DestroyClient(s, c)
        BY <3>2 DEF DestroyClient, Removable
      <3>3. CASE StartClient(s, c)
        BY <3>3 DEF StartClient, CanStart, Valid, slots
      <3>4. CASE StopClient(s, c)
        BY <3>4 DEF StopClient, Valid, slots
      <3>5. ASSUME NEW t \in Timeouts, SetTimeout(s, c, t) PROVE Marks'
        BY <3>5 DEF SetTimeout, Counting, Valid, slots
      <3>6. QED
        BY <2>6, <3>1, <3>2, <3>3, <3>4, <3>5 DEF Call
    <2>7. QED
      BY <2>1, <2>2, <2>3, <2>4, <2>5, <2>6 DEF Next, Dispatch
  <1>3. QED
    BY <1>1, <1>2, TypeInvariant, IdlersCovered, PTL DEF Spec

\* Each Stop that came too late has cost one unit of idler, or still may.
Drift == idler + Cardinality(Debtors) <= Cardinality(Idlers) + late

\* When nobody becomes owed, Drift lives on what happens to the idle clients.
LEMMA DriftLemma ==
  ASSUME TypeInv, Drift, Debtors' \subseteq Debtors, idler' \in Int, late' = late,
         \/ idler' - Cardinality(Idlers)' <= idler - Cardinality(Idlers)
         \/ \E c \in Debtors \ Debtors' :
              idler' - Cardinality(Idlers)' <= idler - Cardinality(Idlers) + 1
  PROVE  Drift'
  <1>1. /\ Debtors \subseteq Clients /\ Idlers \subseteq Clients
        /\ Debtors' \subseteq Clients /\ Idlers' \subseteq Clients
    BY DEF Debtors, Idlers
  <1>2. /\ Cardinality(Debtors) \in Nat /\ Cardinality(Debtors)' \in Nat
        /\ Cardinality(Idlers) \in Nat /\ Cardinality(Idlers)' \in Nat
    BY <1>1, FiniteAssumption, FS_Subset, FS_CardinalityType
  <1>3. Cardinality(Debtors)' <= Cardinality(Debtors)
    BY <1>1, FiniteAssumption, FS_Subset
  <1>4. idler \in Int /\ late \in Nat
    BY DEF TypeInv, TypeOK
  <1>5. CASE idler' - Cardinality(Idlers)' <= idler - Cardinality(Idlers)
    BY <1>2, <1>3, <1>4, <1>5 DEF Drift
  <1>6. ASSUME NEW c \in Debtors \ Debtors',
               idler' - Cardinality(Idlers)' <= idler - Cardinality(Idlers) + 1
        PROVE  Drift'
    <2>1. Debtors' \subseteq Debtors \ {c}
      BY <1>6
    <2>2. IsFiniteSet(Debtors \ {c}) /\ c \in Clients
      BY <1>1, <1>6, FiniteAssumption, FS_Subset
    <2>3. Cardinality(Debtors)' <= Cardinality(Debtors \ {c})
      BY <2>1, <2>2, FS_Subset
    <2>4. Cardinality(Debtors \ {c}) = Cardinality(Debtors) - 1
      BY <1>1, <1>6, <2>2, CountLemma
    <2>5. QED
      BY <1>2, <1>4, <1>6, <2>3, <2>4 DEF Drift
  <1>7. QED
    BY <1>5, <1>6

LEMMA DriftInvariant == Spec => []Drift
  <1>1. Init => Drift
    <2> SUFFICES ASSUME Init PROVE Drift
      OBVIOUS
    <2>1. Idlers = {} /\ Debtors = {}
      BY DEF Init, Idlers, Debtors, Owed, Late
    <2>2. QED
      BY <2>1, FS_EmptySet DEF Init, Drift
  <1>2. TypeInv /\ TypeInv' /\ Marks /\ Drift /\ [Next]_vars => Drift'
    <2> SUFFICES ASSUME TypeInv, TypeInv', Marks, Drift, [Next]_vars
                 PROVE  Drift'
      OBVIOUS
    <2> USE DEF TypeInv, TypeOK
    <2>a. idler' \in Int
      OBVIOUS
    <2>b. /\ Cardinality(Idlers) \in Nat
          /\ \A c \in Clients :
               /\ Cardinality(Idlers \cup {c}) =
                    IF c \in Idlers THEN Cardinality(Idlers)
                                   ELSE Cardinality(Idlers) + 1
               /\ Cardinality(Idlers \ {c}) =
                    IF c \in Idlers THEN Cardinality(Idlers) - 1
                                   ELSE Cardinality(Idlers)
      BY CountLemma DEF Idlers
    <2>1. ASSUME UNCHANGED <<is_idle, idler, late>>, Debtors' \subseteq Debtors
          PROVE  Drift'
      <3>1. Idlers' = Idlers
        BY <2>1 DEF Idlers
      <3>2. idler' - Cardinality(Idlers)' <= idler - Cardinality(Idlers)
        BY <2>1, <2>b, <3>1
      <3>3. QED
        BY <2>1, <2>a, <3>2, DriftLemma
    <2>2. CASE Tick
      BY <2>1, <2>2 DEF Tick, flags, counts, past, Debtors, Owed, Late, Off
    <2>3. CASE Wait
      BY <2>1, <2>3, SourcesAssumption
      DEF Wait, Due, Expired, flags, counts, past, Debtors, Owed, Late, Off
    <2>4. CASE Input \/ BusDone \/ UNCHANGED vars
      BY <2>1, <2>4, SourcesAssumption
      DEF Input, BusDone, vars, flags, counts, past, Debtors, Owed, Late
    <2>5. CASE InputEvent
      <3>1. CASE idler # 0
        <4>1. Debtors' \subseteq Debtors
          BY <2>5, <3>1, SourcesAssumption
          DEF InputEvent, Arm, Marks, Debtors, Owed, Late, Off
        <4>2. Idlers' = {} /\ idler' = idler - Cardinality(Idlers)
          BY <2>5, <3>1 DEF InputEvent, Idlers
        <4>3. idler' - Cardinality(Idlers)' <= idler - Cardinality(Idlers)
          BY <2>b, <4>2, FS_EmptySet
        <4>4. QED
          BY <2>5, <2>a, <4>1, <4>3, DriftLemma DEF InputEvent
      <3>2. CASE idler = 0
        BY <2>5, <3>2, <2>1, SourcesAssumption
        DEF InputEvent, Debtors, Owed, Late
      <3>3. QED
        BY <3>1, <3>2
    <2>6. ASSUME NEW c \in Clients, TimerEvent(c) PROVE Drift'
      <3>1. Debtors' \subseteq Debtors
        BY <2>6 DEF TimerEvent, Quiet, Arm, Debtors, Owed, Late, Off
      <3>2. CASE c \in Idlers
        <4>1. c \in Debtors \ Debtors'
          BY <2>6, <3>2
          DEF TimerEvent, Quiet, Arm, Marks, Idlers, Debtors, Owed, Late, Off
        <4>2. idler' - Cardinality(Idlers)' <= idler - Cardinality(Idlers) + 1
          <5>1. CASE quiet >= timeout[c]
            <6>1. Idlers' = Idlers /\ idler' = idler + 1
              BY <2>6, <3>2, <5>1 DEF TimerEvent, Quiet, Idlers
            <6>2. QED
              BY <2>b, <6>1
          <5>2. CASE ~(quiet >= timeout[c])
            <6>1. Idlers' = Idlers \ {c} /\ idler' = idler
              BY <2>6, <5>2 DEF TimerEvent, Quiet, Idlers
            <6>2. Cardinality(Idlers') = Cardinality(Idlers) - 1
              BY <2>b, <3>2, <6>1, Zenon
            <6>3. QED
              BY <2>b, <6>1, <6>2
          <5>3. QED
            BY <5>1, <5>2
        <4>3. QED
          BY <2>6, <2>a, <3>1, <4>1, <4>2, DriftLemma DEF TimerEvent, past
      <3>3. CASE c \notin Idlers
        <4>1. idler' - Cardinality(Idlers)' <= idler - Cardinality(Idlers)
          <5>1. CASE quiet >= timeout[c]
            <6>1. Idlers' = Idlers \cup {c} /\ idler' = idler + 1
              BY <2>6, <5>1 DEF TimerEvent, Quiet, Idlers
            <6>2. Cardinality(Idlers') = Cardinality(Idlers) + 1
              BY <2>b, <3>3, <6>1, Zenon
            <6>3. QED
              BY <2>b, <6>1, <6>2
          <5>2. CASE ~(quiet >= timeout[c])
            <6>1. Idlers' = Idlers /\ idler' = idler
              BY <2>6, <3>3, <5>2 DEF TimerEvent, Quiet, Idlers
            <6>2. QED
              BY <2>b, <6>1
          <5>3. QED
            BY <5>1, <5>2
        <4>2. QED
          BY <2>6, <2>a, <3>1, <4>1, DriftLemma DEF TimerEvent, past
      <3>4. QED
        BY <3>2, <3>3
    <2>7. ASSUME NEW s \in Senders, NEW c \in Clients, Call(s, c) PROVE Drift'
      <3>1. CASE GetClient(s, c)
        BY <2>1, <3>1
        DEF GetClient, flags, counts, past, Debtors, Owed, Late, Off
      <3>2. CASE DestroyClient(s, c)
        <4>1. Debtors' \subseteq Debtors
          BY <3>2 DEF DestroyClient, Debtors, Owed, Late, Off
        <4>2. Idlers' = Idlers \ {c} /\ idler' = idler /\ late' = late
          BY <3>2 DEF DestroyClient, Idlers, counts
        <4>3. CASE c \in Idlers
          <5>1. c \in Debtors \ Debtors'
            BY <3>2, <4>3
            DEF DestroyClient, Removable, Idlers, Debtors, Owed, Late, Off
          <5>2. Cardinality(Idlers') = Cardinality(Idlers) - 1
            BY <2>b, <4>2, <4>3, Zenon
          <5>3. idler' - Cardinality(Idlers)' <= idler - Cardinality(Idlers) + 1
            BY <2>b, <4>2, <5>2
          <5>4. QED
            BY <2>a, <4>1, <4>2, <5>1, <5>3, DriftLemma
        <4>4. CASE c \notin Idlers
          BY <2>1, <4>1, <4>2, <4>4, <3>2 DEF DestroyClient, Idlers
        <4>5. QED
          BY <4>3, <4>4
      <3>3. CASE StartClient(s, c)
        BY <2>1, <3>3
        DEF StartClient, CanStart, counts, Debtors, Owed, Late, Off
      <3>4. CASE StopClient(s, c)
        <4>1. /\ idler' = IF c \in Idlers THEN idler - 1 ELSE idler
              /\ Idlers' = Idlers \ {c}
          BY <3>4 DEF StopClient, Without, Idlers
        <4>2. Cardinality(Idlers') = IF c \in Idlers THEN Cardinality(Idlers) - 1
                                     ELSE Cardinality(Idlers)
          BY <2>b, <4>1, Zenon
        <4>3. idler' - Cardinality(Idlers') = idler - Cardinality(Idlers)
          BY <2>b, <4>1, <4>2
        <4>4. CASE c \in batch
          <5>1. Debtors' \subseteq Debtors \cup {c} /\ late' = late + 1
            BY <3>4, <4>4 DEF StopClient, Debtors, Owed, Late, Off
          <5>2. Debtors \subseteq Clients /\ Debtors' \subseteq Clients
                  /\ Idlers' \subseteq Clients
            BY DEF Debtors, Idlers
          <5>3. /\ Cardinality(Debtors) \in Nat /\ Cardinality(Debtors') \in Nat
                /\ Cardinality(Idlers') \in Nat
            BY <5>2, FiniteAssumption, FS_Subset, FS_CardinalityType
          <5>4. IsFiniteSet(Debtors \cup {c})
            BY <5>2, FiniteAssumption, FS_Subset
          <5>5. Cardinality(Debtors') <= Cardinality(Debtors \cup {c})
            BY <5>1, <5>4, FS_Subset
          <5>6. \/ Cardinality(Debtors \cup {c}) = Cardinality(Debtors)
                \/ Cardinality(Debtors \cup {c}) = Cardinality(Debtors) + 1
            BY <5>2, CountLemma
          <5>7. QED
            BY <2>a, <2>b, <4>3, <5>1, <5>3, <5>5, <5>6 DEF Drift
        <4>5. CASE c \notin batch
          <5>1. Debtors' \subseteq Debtors /\ late' = late
            BY <3>4, <4>5 DEF StopClient, Debtors, Owed, Late, Off
          <5>2. idler' - Cardinality(Idlers)' <= idler - Cardinality(Idlers)
            BY <2>b, <4>3
          <5>3. QED
            BY <2>a, <5>1, <5>2, DriftLemma
        <4>6. QED
          BY <4>4, <4>5
      <3>5. ASSUME NEW t \in Timeouts, SetTimeout(s, c, t) PROVE Drift'
        BY <2>1, <3>5
        DEF SetTimeout, Counting, counts, Debtors, Owed, Late, Off
      <3>6. QED
        BY <2>7, <3>1, <3>2, <3>3, <3>4, <3>5 DEF Call
    <2>8. QED
      BY <2>2, <2>3, <2>4, <2>5, <2>6, <2>7 DEF Next, Dispatch
  <1>3. QED
    BY <1>1, <1>2, TypeInvariant, MarksInvariant, PTL DEF Spec

\* idler overcounts by at most one for each Stop that came after the expiry of
\* its client had been collected.
THEOREM IdlersDrift == Spec => []IdlerDrift
  <1>1. TypeInv /\ Drift => IdlerDrift
    <2>1. Debtors \subseteq Clients /\ Idlers \subseteq Clients
      BY DEF Debtors, Idlers
    <2>2. Cardinality(Debtors) \in Nat /\ Cardinality(Idlers) \in Nat
      BY <2>1, FiniteAssumption, FS_Subset, FS_CardinalityType
    <2>3. QED
      BY <2>2 DEF Drift, IdlerDrift, TypeInv, TypeOK
  <1>2. QED
    BY <1>1, TypeInvariant, DriftInvariant, PTL

-----------------------------------------------------------------------------
(* Idle means away *)

\* With no input queued, the user has been away since last_input, or for as
\* long as the timer of a running client that is not stale has run.
Away ==
  inot = 0 =>
    \A c \in Clients :
      running[c] /\ c \notin stale =>
        \/ rest >= quiet
        \/ /\ c \in batch => left[c] = 0
           /\ ~is_idle[c] /\ left[c] # Off => rest >= timeout[c] - left[c]

\* An expiry that is dispatched for such a client finds it counting.
LEMMA DispatchedCounts ==
  ASSUME TypeInv, Marks, NEW c \in Clients, c \in batch, running[c], c \notin stale
  PROVE  ~is_idle[c]
  BY DEF Marks, Owed, Late, TypeInv, TypeOK

LEMMA AwayInvariant == Spec => []Away
  <1>1. Init => Away
    BY DEF Init, Away
  <1>2. TypeInv /\ TimerArmed /\ WatchMatchesRunners /\ Marks /\ Away
          /\ [Next]_vars => Away'
    <2> SUFFICES ASSUME TypeInv, TimerArmed, WatchMatchesRunners, Marks, Away,
                        [Next]_vars
                 PROVE  Away'
      OBVIOUS
    <2> USE BoundsAssumption, SourcesAssumption DEF Away, TypeInv, TypeOK, Off
    <2>1. CASE Tick
      BY <2>1 DEF Tick, Older, flags, past
    <2>2. CASE Input
      <3>1. CASE watch
        BY <2>2, <3>1 DEF Input, Queue
      <3>2. CASE ~watch
        <4>1. \A c \in Clients : ~running[c]
          BY <3>2 DEF WatchMatchesRunners, Runners
        <4>2. QED
          BY <2>2, <4>1 DEF Input, flags
      <3>3. QED
        BY <3>1, <3>2
    <2>3. CASE InputEvent
      BY <2>3 DEF InputEvent
    <2>4. CASE Wait
      BY <2>4 DEF Wait, Due, Expired, flags, past
    <2>5. CASE BusDone \/ UNCHANGED vars
      BY <2>5 DEF BusDone, vars, flags, past
    <2>6. ASSUME NEW c \in Clients, TimerEvent(c) PROVE Away'
      <3>1. running[c] /\ c \notin stale => ~is_idle[c]
        BY <2>6, DispatchedCounts DEF TimerEvent
      <3>2. QED
        BY <2>6, <3>1 DEF TimerEvent, Quiet, Arm, past
    <2>7. ASSUME NEW s \in Senders, NEW c \in Clients, Call(s, c) PROVE Away'
      <3>1. CASE GetClient(s, c)
        <4>1. ~running[c]
          BY <3>1 DEF GetClient, Available, RunnersInUse
        <4>2. QED
          BY <3>1, <4>1 DEF GetClient, flags, past
      <3>2. CASE DestroyClient(s, c)
        BY <3>2 DEF DestroyClient, Removable
      <3>3. CASE StartClient(s, c)
        <4>1. c \in batch \/ is_idle[c] => c \in stale
          BY <3>3 DEF StartClient, CanStart, Marks, Owed, Late
        <4>2. QED
          BY <3>3, <4>1 DEF StartClient
      <3>4. CASE StopClient(s, c)
        <4>1. inot' = 0 => inot = 0
          BY <3>4 DEF StopClient, Without, Queue
        <4>2. QED
          BY <3>4, <4>1 DEF StopClient, Without
      <3>5. ASSUME NEW t \in Timeouts, SetTimeout(s, c, t) PROVE Away'
        <4>1. t \in 0..Horizon
          OBVIOUS
        <4>2. running[c] /\ ~is_idle[c] =>
                /\ Retimed(c, t) \in 0..Horizon
                /\ t - Retimed(c, t) <=
                     IF left[c] = Off THEN 0 ELSE timeout[c] - left[c]
          BY <4>1, RetimedLemma
        <4>3. \A d \in Clients \ {c} :
                /\ timeout'[d] = timeout[d] /\ left'[d] = left[d]
                /\ d \in stale' <=> d \in stale
          BY <3>5 DEF SetTimeout, Counting
        <4>4. CASE ~is_idle[c] /\ running[c]
          <5>1. timeout'[c] = t /\ left'[c] = Retimed(c, t)
            BY <3>5, <4>1, <4>4 DEF SetTimeout, Counting
          <5>2. c \in batch /\ c \notin stale' => left'[c] = left[c]
            BY <3>5 DEF SetTimeout
          <5>3. c \in stale => c \in stale'
            BY <3>5 DEF SetTimeout
          <5>4. QED
            BY <3>5, <4>1, <4>2, <4>3, <4>4, <5>1, <5>2, <5>3 DEF SetTimeout
        <4>5. CASE ~(~is_idle[c] /\ running[c])
          BY <3>5, <4>3, <4>5 DEF SetTimeout, Counting
        <4>6. QED
          BY <4>4, <4>5
      <3>6. QED
        BY <2>7, <3>1, <3>2, <3>3, <3>4, <3>5 DEF Call
    <2>8. QED
      BY <2>1, <2>2, <2>3, <2>4, <2>5, <2>6, <2>7 DEF Next, Dispatch
  <1>3. QED
    BY <1>1, <1>2, TypeInvariant, TimersArmed, WatchCorrect, MarksInvariant,
       PTL DEF Spec

\* The timer handler declares a running client idle only after its Timeout
\* without input, although input is invisible while no client runs; the only
\* clients it says nothing of are those whose timer was stopped or moved after
\* its expiry was collected.
THEOREM IdleOnlyWhenAway == Spec => IdleMeansAway
  <1> DEFINE Declared ==
        \A c \in Clients :
          running[c] /\ c \notin stale /\ ~is_idle[c] /\ is_idle'[c] /\ inot = 0
            => rest >= timeout[c]
  <1>1. ASSUME TypeInv, Marks, Away, [Next]_vars
        PROVE  [Declared]_vars
    <2> USE <1>1 DEF TypeInv, TypeOK
    <2>1. ASSUME NEW c \in Clients, TimerEvent(c) PROVE Declared
      <3>1. running[c] /\ c \notin stale /\ ~is_idle[c] /\ inot = 0 =>
              rest >= timeout[c] \/ rest >= quiet
        BY <2>1, BoundsAssumption DEF TimerEvent, Away, Off
      <3>2. QED
        BY <2>1, <3>1, BoundsAssumption DEF TimerEvent, Quiet, Arm
    <2>2. ASSUME NEW s \in Senders, NEW c \in Clients, Call(s, c)
          PROVE  Declared
      BY <2>2 DEF Call, GetClient, DestroyClient, Removable, StartClient,
         StopClient, Without, SetTimeout, Counting, flags
    <2>3. CASE InputEvent
      BY <2>3 DEF InputEvent
    <2>4. CASE Tick \/ Input \/ Wait \/ BusDone
      BY <2>4 DEF Tick, Input, Wait, BusDone, flags
    <2>5. QED
      BY <2>1, <2>2, <2>3, <2>4 DEF Next, Dispatch
  <1>2. QED
    BY <1>1, TypeInvariant, MarksInvariant, AwayInvariant, PTL
    DEF Spec, IdleMeansAway

-----------------------------------------------------------------------------
(* Refinement *)

\* What a peer sees of the module is the interface of IdleClient, although
\* events are batched and Stops may come too late.
THEOREM Implements == Spec => ImplementsIdleClient
  <1> DEFINE phase == [c \in Clients |-> Phase(c)]
  <1>1. Init => Abstract!Init
    BY DEF Init, Abstract!Init, Phase
  <1>2. ASSUME TypeInv, Marks, [Next]_vars
        PROVE  [Abstract!Next]_(Abstract!vars)
    <2> USE <1>2 DEF TypeInv, TypeOK
    <2>1. ASSUME UNCHANGED <<in_use, running, is_idle, sender>>,
                 \A c \in Clients :
                   in_use[c] /\ ~running[c] => (Late(c)' <=> Late(c))
          PROVE  UNCHANGED Abstract!vars
      <3>1. \A c \in Clients : Phase(c)' = Phase(c)
        BY <2>1 DEF Phase
      <3>2. QED
        BY <2>1, <3>1 DEF Abstract!vars
    <2>2. CASE InputEvent
      <3>1. CASE idler # 0
        <4> DEFINE silent == {c \in Clients : timeout[c] = 0}
        <4>1. ASSUME NEW c \in Clients
              PROVE  Phase(c)' = Abstract!Woken(c, silent)
          <5>1. /\ ~is_idle'[c] /\ (in_use'[c] <=> in_use[c])
                /\ running'[c] <=> running[c]
                /\ left'[c] = IF is_idle[c] THEN Arm(timeout[c]) ELSE left[c]
                /\ c \in batch' <=> c \in batch
            BY <2>2, <3>1, SourcesAssumption DEF InputEvent, slots
          <5>2. ~running[c] /\ is_idle[c] => ~Late(c)
            BY DEF Marks
          <5>3. CASE is_idle[c] /\ ~running[c] /\ in_use[c]
            <6>1. Phase(c) = "late idle"
              BY <5>3 DEF Phase
            <6>2. Late(c)' <=> c \notin silent
              BY <5>1, <5>2, <5>3, BoundsAssumption DEF Late, Arm, Off
            <6>3. Phase(c)' = IF c \in silent THEN "stopped" ELSE "late"
              BY <5>1, <5>3, <6>2 DEF Phase
            <6>4. QED
              BY <6>1, <6>3 DEF Abstract!Woken
          <5>4. CASE is_idle[c] /\ running[c] /\ in_use[c]
            BY <5>1, <5>4 DEF Phase, Abstract!Woken
          <5>5. CASE ~is_idle[c] \/ ~in_use[c]
            <6>1. in_use[c] => (Late(c)' <=> Late(c))
              BY <5>1, <5>5 DEF Late
            <6>2. Phase(c)' = Phase(c) /\ Phase(c) # "idle" /\ Phase(c) # "late idle"
              BY <5>1, <5>5, <6>1 DEF Phase
            <6>3. QED
              BY <6>2 DEF Abstract!Woken
          <5>6. QED
            BY <5>3, <5>4, <5>5
        <4>2. phase' = [c \in Clients |-> Abstract!Woken(c, silent)]
          BY <4>1
        <4>3. silent \in SUBSET Clients /\ sender' = sender
          BY <2>2 DEF InputEvent, slots
        <4>4. Abstract!WakeAll
          BY <4>2, <4>3 DEF Abstract!WakeAll
        <4>5. QED
          BY <4>4 DEF Abstract!Next
      <3>2. CASE idler = 0
        BY <2>1, <2>2, <3>2, SourcesAssumption DEF InputEvent, Late, slots
      <3>3. QED
        BY <3>1, <3>2
    <2>3. ASSUME NEW c \in Clients, TimerEvent(c)
          PROVE  [Abstract!Next]_(Abstract!vars)
      <3>1. in_use[c] /\ Late(c) /\ (~running[c] => ~is_idle[c])
        BY <2>3 DEF TimerEvent, Marks, Late
      <3>2. \A d \in Clients \ {c} : Phase(d)' = Phase(d)
        <4>1. \A d \in Clients \ {c} :
                /\ is_idle'[d] = is_idle[d] /\ left'[d] = left[d]
                /\ d \in batch' <=> d \in batch
          BY <2>3 DEF TimerEvent
        <4>2. UNCHANGED <<in_use, running>>
          BY <2>3 DEF TimerEvent, slots
        <4>3. QED
          BY <4>1, <4>2 DEF Phase, Late
      <3>3. phase' = [phase EXCEPT ![c] = Phase(c)']
        BY <3>2
      <3>4. CASE quiet >= timeout[c]
        <4>1. is_idle'[c] /\ in_use'[c] /\ (running'[c] <=> running[c])
          BY <2>3, <3>1, <3>4 DEF TimerEvent, Quiet, slots
        <4>2. CASE is_idle[c]
          <5>1. Phase(c)' = Phase(c)
            BY <3>1, <4>1, <4>2 DEF Phase
          <5>2. sender' = sender
            BY <2>3 DEF TimerEvent, slots
          <5>3. QED
            BY <3>2, <5>1, <5>2 DEF Abstract!vars
        <4>3. CASE ~is_idle[c]
          <5>1. Abstract!GoIdle(c)
            BY <2>3, <3>1, <3>3, <4>1, <4>3
            DEF TimerEvent, Abstract!GoIdle, Abstract!Change, Phase, slots
          <5>2. QED
            BY <5>1 DEF Abstract!Next
        <4>4. QED
          BY <4>2, <4>3
      <3>5. CASE ~(quiet >= timeout[c])
        <4>1. ~is_idle'[c] /\ in_use'[c] /\ (running'[c] <=> running[c])
                /\ Late(c)'
          <5>1. left' = [left EXCEPT ![c] = Arm(timeout[c] - quiet)]
            BY <2>3, <3>5, Zenon DEF TimerEvent, Quiet
          <5>2. timeout[c] - quiet # 0 /\ timeout[c] - quiet # Off
            BY <3>5, BoundsAssumption DEF Off
          <5>3. left'[c] # Off
            BY <5>1, <5>2 DEF Arm
          <5>4. ~is_idle'[c] /\ in_use'[c] /\ (running'[c] <=> running[c])
            BY <2>3, <3>1, <3>5 DEF TimerEvent, Quiet, slots
          <5>5. QED
            BY <5>3, <5>4 DEF Late
        <4>2. CASE is_idle[c]
          <5>1. Abstract!Recheck(c)
            BY <2>3, <3>1, <3>3, <4>1, <4>2
            DEF TimerEvent, Abstract!Recheck, Abstract!Change, Phase, slots
          <5>2. QED
            BY <5>1 DEF Abstract!Next
        <4>3. CASE ~is_idle[c]
          <5>1. Phase(c)' = Phase(c)
            BY <3>1, <4>1, <4>3 DEF Phase
          <5>2. sender' = sender
            BY <2>3 DEF TimerEvent, slots
          <5>3. QED
            BY <3>2, <5>1, <5>2 DEF Abstract!vars
        <4>4. QED
          BY <4>2, <4>3
      <3>6. QED
        BY <3>4, <3>5
    <2>4. ASSUME NEW s \in Senders, NEW c \in Clients, Call(s, c)
          PROVE  [Abstract!Next]_(Abstract!vars)
      <3>1. CASE GetClient(s, c)
        <4>1. ~in_use[c] /\ ~running[c] /\ ~is_idle[c] /\ ~Late(c)
          BY <3>1 DEF GetClient, Available, RunnersInUse, Marks
        <4>2. Abstract!Request(s, c)
          BY <3>1, <4>1
          DEF GetClient, Abstract!Request, Phase, Late, flags
        <4>3. QED
          BY <4>2 DEF Abstract!Next
      <3>2. CASE DestroyClient(s, c)
        <4>1. Abstract!Release(c)
          BY <3>2
          DEF DestroyClient, Removable, Valid, Abstract!Release, Phase, Late
        <4>2. QED
          BY <4>1 DEF Abstract!Next
      <3>3. CASE StartClient(s, c)
        <4>1. Abstract!Start(c)
          BY <3>3
          DEF StartClient, CanStart, Valid, Abstract!Start, Abstract!Change,
             Phase, Late, slots
        <4>2. QED
          BY <4>1 DEF Abstract!Next
      <3>4. CASE StopClient(s, c)
        <4>1. Abstract!Stop(c)
          BY <3>4
          DEF StopClient, Valid, Without, Abstract!Stop, Abstract!Change, Phase,
             Late, slots
        <4>2. QED
          BY <4>1 DEF Abstract!Next
      <3>5. ASSUME NEW t \in Timeouts, SetTimeout(s, c, t)
            PROVE  [Abstract!Next]_(Abstract!vars)
        BY <2>1, <3>5 DEF SetTimeout, Counting, Late, slots
      <3>6. QED
        BY <2>4, <3>1, <3>2, <3>3, <3>4, <3>5 DEF Call
    <2>5. CASE Tick \/ Wait \/ Input \/ BusDone \/ UNCHANGED vars
      BY <2>1, <2>5, SourcesAssumption
      DEF Tick, Wait, Due, Expired, Input, BusDone, vars, slots, flags, Late, Off
    <2>6. QED
      BY <2>2, <2>3, <2>4, <2>5 DEF Next, Dispatch
  <1>3. QED
    BY <1>1, <1>2, TypeInvariant, MarksInvariant, PTL
    DEF Spec, ImplementsIdleClient, Abstract!Spec
=============================================================================
