----------------------------- MODULE Backlight -----------------------------
(***************************************************************************)
(* Backlight2 (backlight2.c), its old interface (backlight.c) and the      *)
(* plugin for internal screens (backlight_plugins/sysfs.c).                *)
(*                                                                         *)
(* A call sets the brightness of one device or of all, at once or by a     *)
(* periodic timer that moves it a step at a time.  Internal screens change *)
(* under the daemon (keys, hotplug); udev queues an event, whose handler   *)
(* compares the value libudev has cached with the fresh one and tells the  *)
(* bus.                                                                    *)
(*                                                                         *)
(* A percentage is an integer, Full for 100%; the brightness of a device   *)
(* is one of its MaxOf[d] + 1 levels, so that rounding is visible.         *)
(***************************************************************************)
EXTENDS Integers, Sequences

CONSTANTS Devices,    \* screens, plugged or not
          Internal,   \* those of the sysfs plugin; the others speak DDC
          Flaky,      \* screens whose plugin may fail to set a value
          Full,       \* 100%, in the unit of percentages (resolution bound)
          MaxOf,      \* the `max' of each screen
          Targets,    \* percentages that peers request
          Steps,      \* smooth steps that peers request, 0 for none
          MaxEvents   \* pending udev events of a device (bound)

ASSUME DevicesAssumption ==
  /\ Internal \subseteq Devices /\ Flaky \subseteq Devices
  /\ MaxOf \in [Devices -> Nat \ {0}]
  /\ Full \in Nat \ {0} /\ \A d \in Devices : Full % MaxOf[d] = 0
  /\ Targets \subseteq Nat /\ Steps \subseteq Nat /\ MaxEvents \in Nat

VARIABLES alive,    \* the daemon has not died
          plugged,  \* screens that are there
          level,    \* their brightness
          bls,      \* the `bls' map: screens the daemon knows
          cached,   \* brightness attribute cached in bl->dev
          smooth,   \* bl->smooth, or Nothing
          verse,    \* 1 for Raise, -1 for Lower
          events,   \* udev events of each screen, oldest first
          told      \* history: what peers were told of each internal screen

vars == <<alive, plugged, level, bls, cached, smooth, verse, events, told>>

\* Since a screen was added: the percentage in its last Changed signal or, as
\* long as there was none, the level it had then.
Signalled(p) == [signal |-> TRUE, value |-> p]
Unsignalled(v) == [signal |-> FALSE, value |-> v]

Nothing == [target |-> 0, step |-> 0]
Smoothing(d) == smooth[d] # Nothing

\* Percentages and levels
Pct(d, v) == v * (Full \div MaxOf[d])
Level(d, p) == (2 * p * MaxOf[d] + Full) \div (2 * Full)
Levels(d) == 0..MaxOf[d]
Least(a, b) == IF a < b THEN a ELSE b
Greatest(a, b) == IF a < b THEN b ELSE a

TypeOK ==
  /\ alive \in BOOLEAN
  /\ plugged \subseteq Devices
  /\ level \in [Devices -> Nat] /\ \A d \in Devices : level[d] \in Levels(d)
  /\ bls \subseteq Devices
  /\ cached \in [Devices -> Nat]
  /\ smooth \in [Devices -> [target : Nat, step : Nat]]
  /\ verse \in {-1, 0, 1}
  /\ events \in [Devices -> Seq({"change", "add", "remove"})]
  /\ told \in [Devices -> [signal : BOOLEAN, value : Int]]

Init ==
  /\ alive = TRUE
  /\ plugged \in SUBSET Devices
  /\ Devices \ Internal \subseteq plugged
  /\ level = [d \in Devices |-> MaxOf[d]]
  /\ bls = plugged
  /\ cached = level
  /\ smooth = [d \in Devices |-> Nothing]
  /\ verse = 0
  /\ events = [d \in Devices |-> << >>]
  /\ told = [d \in Devices |-> Unsignalled(level[d])]

-----------------------------------------------------------------------------
(* Computing the next percentage, with verse v *)

\* plugin->get: libudev's cached attribute, or what the monitor answers.
Get(d) == Pct(d, IF d \in Internal THEN cached[d] ELSE level[d])

\* sanitize_target_step, which only Raise and Lower go through
Sanitize(p) == Greatest(0, Least(p, Full))
Stride(v, step) == IF v # 0 /\ step >= Full THEN 0 ELSE step

Aim(v, d, target) ==
  IF v = 0 THEN target ELSE Sanitize(Get(d) + v * target)

\* next_backlight_pct
NextPctUnclamped(v, d, target, step) ==
  LET aim == Aim(v, d, target)
      stride == Stride(v, step)
  IN  IF stride = 0 THEN aim
      ELSE IF aim < Get(d) THEN Get(d) - stride
      ELSE Get(d) + stride

NextPct(v, d, target, step) ==
  LET aim == Aim(v, d, target)
      stride == Stride(v, step)
  IN  IF stride = 0 THEN aim
      ELSE IF aim < Get(d) THEN Greatest(Get(d) - stride, aim)
      ELSE Least(Get(d) + stride, aim)

\* What set_backlight_value leaves in target_pct: 0 once it is reached.
RemainingForever(v, d, target, step) == Aim(v, d, target)

Remaining(v, d, target, step) ==
  LET aim == Aim(v, d, target)
  IN  IF NextPct(v, d, target, step) = aim THEN 0 ELSE aim

\* plugin->set succeeds
CanSet(d, pct) == d \in plugged /\ Level(d, pct) \in Levels(d)

\* udev's queue; two events in a row that say "change" act as one.
Enqueue(queue, event) ==
  IF queue # << >> /\ event = "change" /\ queue[Len(queue)] = event
    THEN queue
    ELSE Append(queue, event)

\* set_backlight_value succeeds with pct[d] on each screen d of D: the level
\* and the cached attribute change, the kernel reports it, the bus is told.
Apply(D, pct) ==
  /\ level' = [d \in Devices |->
                 IF d \in D THEN Level(d, pct[d]) ELSE level[d]]
  /\ cached' = [d \in Devices |->
                  IF d \in D THEN Level(d, pct[d]) ELSE cached[d]]
  /\ told' = [d \in Devices |->
                IF d \in D \cap Internal THEN Signalled(pct[d]) ELSE told[d]]
  /\ events' = [d \in Devices |->
                  IF d \in D \cap Internal THEN Enqueue(events[d], "change")
                  ELSE events[d]]

-----------------------------------------------------------------------------
(* Method calls *)

\* set_backlight, on the one screen of D or by map_iterate on all of them,
\* which ends at the first that fails; a new timer replaces the one there was.
SetBacklight(v, D, target, step) ==
  LET needs_smooth == step > 0 /\ target > 0
      stride == IF needs_smooth THEN step ELSE 0
      pct == [d \in D |-> NextPct(v, d, target, stride)]
  IN  \E done, failed \in SUBSET D :
        /\ done \cap failed = {}
        /\ IF done = D THEN failed = {} ELSE \E d \in D : failed = {d}
        /\ \A d \in done : CanSet(d, pct[d])
        /\ \A d \in failed : d \in Flaky \/ ~CanSet(d, pct[d])
        /\ Apply(done, pct)
        /\ smooth' = [d \in Devices |->
             IF d \in done /\ needs_smooth
               THEN [target |-> Remaining(v, d, target, step), step |-> step]
             ELSE IF d \in done \cup failed THEN Nothing
             ELSE smooth[d]]

\* Set, Raise and Lower (direction 0, 1, -1) on one screen or on all: Raise
\* and Lower leave their direction in verse, Set clears it when it is done.
Call(direction, D, target, step) ==
  /\ alive
  /\ SetBacklight(IF direction = 0 THEN verse ELSE direction, D, target, step)
  /\ verse' = 0
  /\ UNCHANGED <<alive, plugged, bls>>

\* The same calls when polkit does not authorize the sender.
DeniedCall(direction) ==
  /\ alive
  /\ verse' = IF direction = 0 THEN verse ELSE direction
  /\ UNCHANGED <<alive, plugged, level, bls, cached, smooth, events, told>>

-----------------------------------------------------------------------------
(* Timers and udev events *)

\* receive, for the timer of a screen: one more step, unless the plugin fails.
SmoothTick(d) ==
  /\ alive /\ Smoothing(d)
  /\ LET target == smooth[d].target
         step == smooth[d].step
         next == NextPct(verse, d, target, step)
         left == Remaining(verse, d, target, step)
     IN  \/ /\ CanSet(d, next)
            /\ Apply({d}, [e \in {d} |-> next])
            /\ smooth' = [smooth EXCEPT ![d] =
                            IF left = 0 THEN Nothing
                            ELSE [target |-> left, step |-> step]]
         \/ /\ d \in Flaky \/ ~CanSet(d, next)
            /\ smooth' = [smooth EXCEPT ![d] = Nothing]
            /\ UNCHANGED <<level, cached, events, told>>
  /\ UNCHANGED <<alive, plugged, bls, verse>>

\* emit_signals
Emit(d, pct) == told' = [told EXCEPT ![d] = Signalled(pct)]

\* sysfs receive, "change": the fresh device replaces the cached one, and a
\* value that differs from the cached one is signalled.  Reading the value
\* of a screen that is gone is atoi(NULL).
ChangedUncached(d) ==
  IF d \notin bls
    THEN UNCHANGED <<alive, bls, cached, smooth, told>>
    ELSE /\ IF level[d] = cached[d] THEN UNCHANGED told
                                    ELSE Emit(d, Pct(d, level[d]))
         /\ UNCHANGED <<alive, bls, cached, smooth>>

Changed(d) ==
  IF d \notin bls
    THEN UNCHANGED <<alive, bls, cached, smooth, told>>
  ELSE IF d \notin plugged
    THEN alive' = FALSE /\ UNCHANGED <<bls, cached, smooth, told>>
  ELSE /\ cached' = [cached EXCEPT ![d] = level[d]]
       /\ IF level[d] = cached[d] THEN UNCHANGED told
                                  ELSE Emit(d, Pct(d, level[d]))
       /\ UNCHANGED <<alive, bls, smooth>>

\* "add": store_internal_device caches the value that peers will Get; the new
\* object is announced, its brightness is not.
Added(d) ==
  IF d \in bls
    THEN UNCHANGED <<alive, bls, cached, smooth, told>>
  ELSE IF d \notin plugged
    THEN alive' = FALSE /\ UNCHANGED <<bls, cached, smooth, told>>
  ELSE /\ bls' = bls \cup {d}
       /\ cached' = [cached EXCEPT ![d] = level[d]]
       /\ told' = [told EXCEPT ![d] = Unsignalled(level[d])]
       /\ UNCHANGED <<alive, smooth>>

\* "remove": bl_dtor stops the timer of the screen.
RemovedSmoothing(d) ==
  /\ bls' = bls \ {d}
  /\ UNCHANGED <<alive, cached, smooth, told>>

Removed(d) ==
  /\ bls' = bls \ {d}
  /\ smooth' = [smooth EXCEPT ![d] = Nothing]
  /\ UNCHANGED <<alive, cached, told>>

UdevEvent(d) ==
  /\ alive /\ events[d] # << >>
  /\ events' = [events EXCEPT ![d] = Tail(@)]
  /\ LET action == Head(events[d])
     IN  \/ action = "change" /\ Changed(d)
         \/ action = "add" /\ Added(d)
         \/ action = "remove" /\ Removed(d)
  /\ UNCHANGED <<plugged, level, verse>>

-----------------------------------------------------------------------------
(* The environment: keys, hotplug *)

Keys(d) ==
  /\ alive /\ d \in plugged
  /\ \E v \in Levels(d) : level' = [level EXCEPT ![d] = v]
  /\ events' = IF d \in Internal
                 THEN [events EXCEPT ![d] = Enqueue(@, "change")]
                 ELSE events
  /\ UNCHANGED <<alive, plugged, bls, cached, smooth, verse, told>>

Hotplug(d) ==
  /\ alive /\ d \in Internal /\ Len(events[d]) < MaxEvents
  /\ plugged' = IF d \in plugged THEN plugged \ {d} ELSE plugged \cup {d}
  /\ events' = [events EXCEPT
                  ![d] = Enqueue(@, IF d \in plugged THEN "remove" ELSE "add")]
  /\ UNCHANGED <<alive, level, bls, cached, smooth, verse, told>>

Peers ==
  \E direction \in {-1, 0, 1} :
    \/ DeniedCall(direction)
    \/ \E target \in Targets, step \in Steps,
          D \in {bls} \cup {{d} : d \in bls} :
         Call(direction, D, target, step)

Daemon == \E d \in Devices : SmoothTick(d) \/ UdevEvent(d)

Next == Peers \/ Daemon \/ \E d \in Devices : Keys(d) \/ Hotplug(d)

Spec == Init /\ [][Next]_vars

\* Each timer is periodic and each event is dispatched.
FairSpec ==
  Spec /\ \A d \in Devices : WF_vars(SmoothTick(d)) /\ WF_vars(UdevEvent(d))

-----------------------------------------------------------------------------
(* Properties *)

\* Once the events of a screen are handled, what libudev has cached for it,
\* which Get answers and Raise adds to, is its brightness, whatever keys,
\* calls and hotplugs came between (sysfs.c:43-47).
CacheInSync ==
  \A d \in bls \cap Internal :
    alive /\ events[d] = << >> => cached[d] = level[d]

\* Once the events of an internal screen are handled, the last Changed signal
\* since it was added told its brightness, and a screen without one still has
\* the brightness it was added with: the signal that a call emits and the
\* filter of the udev handler leave no change untold.
SignalInSync ==
  \A d \in bls \cap Internal :
    alive /\ events[d] = << >> =>
      level[d] = IF told[d].signal THEN Level(d, told[d].value)
                                   ELSE told[d].value

\* Once its events are handled, a screen is known iff it is plugged, and
\* only known screens have a timer, which would use a freed bl_t.
MapInSync ==
  alive => \A d \in Devices :
             /\ events[d] = << >> => (d \in bls <=> d \in plugged)
             /\ Smoothing(d) => d \in bls

\* A timer brings a screen nearer to its target and never beyond it, whatever
\* happened to the screen since the last tick, unless an event that the daemon
\* has not read makes it step from a stale level.
TowardTarget ==
  [][\A d \in Devices :
       SmoothTick(d) /\ verse = 0 /\ events[d] = << >> =>
         LET target == Level(d, smooth[d].target)
         IN  \/ level[d] <= level'[d] /\ level'[d] <= target
             \/ level[d] >= level'[d] /\ level'[d] >= target]_vars

\* When peers and users leave the screens alone, every smoothing ends, on
\* screens that fail too, while the daemon lives and if its step is over half
\* a level (a smaller one is lost when it is rounded).
SmoothEnds ==
  <>[][Daemon]_vars =>
    <>[](\A d \in Devices :
           alive /\ Smoothing(d) => 2 * smooth[d].step * MaxOf[d] <= Full)

\* Every smoothing ends (backlight2.c:124-126, "to avoid endless loop").
EverySmoothEnds ==
  <>[][Daemon]_vars => <>[](\A d \in Devices : alive => ~Smoothing(d))
=============================================================================
