------------------------------ MODULE Keyboard ------------------------------
(***************************************************************************)
(* The Keyboard module (keyboard.c): the brightness and the timeout of     *)
(* keyboard backlights, which are LED devices of the kernel.               *)
(*                                                                         *)
(* Every value is read from and written to sysfs; the daemon keeps the map *)
(* of the keyboards, which udev events change, and tells changes to peers. *)
(* A call writes on one keyboard after the other; keys and hotplug come    *)
(* between two writes, events are handled between two calls.  Reading the  *)
(* brightness of a device that is gone is atoi(NULL).                      *)
(***************************************************************************)
EXTENDS Integers, Sequences

CONSTANTS Keyboards,
          Flaky,      \* keyboards whose writes may fail
          Reporting,  \* those whose keys send a "change" event, if any do
          Full,       \* 100%, in the unit of percentages (resolution bound)
          MaxOf,      \* `max' of each keyboard
          Targets,    \* percentages that peers request
          Timeouts,   \* timeouts that peers request
          MaxEvents   \* pending udev events of a keyboard (bound)

ASSUME KeyboardAssumption ==
  /\ Flaky \subseteq Keyboards /\ Reporting \subseteq Keyboards
  /\ Full \in Nat \ {0} /\ MaxOf \in [Keyboards -> Nat \ {0}]
  \* percentages are doubles, which are finer than the levels of a keyboard
  /\ \A k \in Keyboards : Full >= 2 * MaxOf[k]
  /\ Targets \subseteq Int /\ Timeouts \subseteq Int
  /\ MaxEvents \in Nat

VARIABLES alive,       \* the daemon has not died
          monitoring,  \* is the udev monitor open?
          plugged,     \* keyboards that are there
          level, timeout,  \* what their drivers hold
          kbds,        \* the map
          objects,     \* the objects that peers know
          events,      \* udev events, oldest first
          call,        \* the Set or SetTimeout under way, or NoCall
          answer,      \* what the last one replied
          told,        \* history: what peers were told of each keyboard
          silent,      \* history: whose keys then changed it without an event
          missed       \* history: changed before the monitor was open

drivers == <<plugged, level, timeout>>
past == <<told, silent, missed>>
vars == <<alive, monitoring, drivers, kbds, objects, events, call, answer, past>>

Pct(k, v) == (v * Full) \div MaxOf[k]
Level(k, p) == (2 * p * MaxOf[k] + Full) \div (2 * Full)

\* Since a keyboard was added: the percentage in its last Changed signal or, as
\* long as there was none, the level it had then.
Signalled(p) == [signal |-> TRUE, value |-> p]
Unsignalled(v) == [signal |-> FALSE, value |-> v]
Known(k) == IF told[k].signal THEN Level(k, told[k].value) ELSE told[k].value

\* A call on the keyboards `on', of which `todo' are still to be written, with
\* the result of the last callback; `pressed' are those whose keys were used
\* since they were written (history).
Attributes == {"brightness", "stop_timeout"}
CallOn(D, attribute, value) ==
  [attr |-> attribute, value |-> value, on |-> D, todo |-> D, ok |-> TRUE,
   pressed |-> {}]
NoCall == CallOn({}, "brightness", 0)
Busy == call.on # {}

TypeOK ==
  /\ {alive, monitoring, answer} \subseteq BOOLEAN
  /\ plugged \subseteq Keyboards /\ kbds \subseteq Keyboards
  /\ objects \subseteq Keyboards
  /\ \A k \in Keyboards : level[k] \in 0..MaxOf[k]
  /\ timeout \in [Keyboards -> Int]
  /\ events \in [Keyboards -> Seq({"add", "remove", "change"})]
  /\ call \in [attr : Attributes, value : Int, on : SUBSET Keyboards,
               todo : SUBSET Keyboards, ok : BOOLEAN,
               pressed : SUBSET Keyboards]
  /\ told \in [Keyboards -> [signal : BOOLEAN, value : Int]]
  /\ silent \subseteq Keyboards /\ missed \subseteq Keyboards

\* init, up to udev_devices_foreach: the keyboards that are there.
Init ==
  /\ alive = TRUE /\ monitoring = FALSE
  /\ plugged \in SUBSET Keyboards
  /\ kbds = plugged /\ objects = kbds
  /\ level = [k \in Keyboards |-> 0] /\ timeout = [k \in Keyboards |-> 1]
  /\ events = [k \in Keyboards |-> << >>]
  /\ call = NoCall /\ answer = TRUE
  /\ told = [k \in Keyboards |-> Unsignalled(0)]
  /\ silent = {} /\ missed = {}

\* init_udev_monitor
Monitor ==
  /\ ~monitoring /\ monitoring' = TRUE
  /\ UNCHANGED <<alive, drivers, kbds, objects, events, call, answer, past>>

-----------------------------------------------------------------------------
(* Method calls, on one keyboard or on all of the map *)

Ready == alive /\ monitoring /\ ~Busy

IsPct(p) == 0 <= p /\ p <= Full

\* Set and SetTimeout, authorized; a value out of range is refused.
Begin(D) ==
  /\ Ready /\ D # {}
  /\ \/ \E p \in Targets : IsPct(p) /\ call' = CallOn(D, "brightness", p)
     \/ \E t \in Timeouts : t > 0 /\ call' = CallOn(D, "stop_timeout", t)
  /\ UNCHANGED <<alive, monitoring, drivers, kbds, objects, events, answer, past>>

\* set_brightness and set_timeout, where the write succeeds
Write(k) ==
  /\ k \in plugged
  /\ IF call.attr = "brightness"
       THEN /\ level' = [level EXCEPT ![k] = Level(k, call.value)]
            /\ told' = [told EXCEPT ![k] = Signalled(call.value)]
            /\ silent' = silent \ {k}
            /\ UNCHANGED timeout
       ELSE /\ timeout' = [timeout EXCEPT ![k] = call.value]
            /\ UNCHANGED <<level, told, silent>>
  /\ UNCHANGED <<plugged, missed>>

\* map_iterate: the keyboards of the map in any order; MAP_ERR ends it.
VisitAll(k) ==
  \/ /\ Write(k)
     /\ call' = [call EXCEPT !.todo = @ \ {k}, !.ok = TRUE,
                             !.pressed = @ \ {k}]
  \/ /\ k \in Flaky \/ k \notin plugged
     /\ call' = [call EXCEPT !.todo = @ \ {k}, !.ok = FALSE]
     /\ UNCHANGED <<drivers, past>>

Visit(k) ==
  \/ /\ Write(k)
     /\ call' = [call EXCEPT !.todo = @ \ {k}, !.ok = TRUE,
                             !.pressed = @ \ {k}]
  \/ /\ k \in Flaky \/ k \notin plugged
     /\ call' = [call EXCEPT !.todo = {}, !.ok = FALSE]
     /\ UNCHANGED <<drivers, past>>

Iterate(k) ==
  /\ alive /\ k \in call.todo
  /\ Visit(k)
  /\ UNCHANGED <<alive, monitoring, kbds, objects, events, answer>>

Reply ==
  /\ alive /\ Busy /\ call.todo = {}
  /\ answer' = call.ok
  /\ call' = NoCall
  /\ UNCHANGED <<alive, monitoring, drivers, kbds, objects, events, past>>

\* Get, which changes nothing unless one of the keyboards is gone.
Get(D) ==
  /\ Ready /\ ~(D \subseteq plugged)
  /\ alive' = FALSE
  /\ UNCHANGED <<monitoring, drivers, kbds, objects, events, call, answer, past>>

-----------------------------------------------------------------------------
(* receive *)

\* A new keyboard is announced, not its brightness; that the bus takes its
\* object is assumed.
Added(k) ==
  IF k \in kbds THEN UNCHANGED <<alive, kbds, objects, told, silent>>
  ELSE IF k \notin plugged
    THEN alive' = FALSE /\ UNCHANGED <<kbds, objects, told, silent>>
  ELSE /\ kbds' = kbds \cup {k} /\ objects' = objects \cup {k}
       /\ told' = [told EXCEPT ![k] = Unsignalled(level[k])]
       /\ silent' = silent \ {k}
       /\ UNCHANGED alive

ForgottenSilently(k) == kbds' = kbds \ {k} /\ UNCHANGED objects
Forgotten(k) == kbds' = kbds \ {k} /\ objects' = objects \ {k}

ChangedIgnored(k) == UNCHANGED <<alive, told, silent>>

\* A change is told with the brightness that the device has now.
Changed(k) ==
  IF k \notin kbds THEN UNCHANGED <<alive, told, silent>>
  ELSE IF k \notin plugged THEN alive' = FALSE /\ UNCHANGED <<told, silent>>
  ELSE /\ told' = [told EXCEPT ![k] = Signalled(Pct(k, level[k]))]
       /\ silent' = silent \ {k}
       /\ UNCHANGED alive

UdevEvent(k) ==
  /\ Ready /\ events[k] # << >>
  /\ events' = [events EXCEPT ![k] = Tail(@)]
  /\ LET action == Head(events[k])
     IN  \/ action = "add" /\ Added(k)
         \/ action = "remove" /\ Forgotten(k) /\ UNCHANGED <<alive, told, silent>>
         \/ action = "change" /\ Changed(k) /\ UNCHANGED <<kbds, objects>>
  /\ UNCHANGED <<monitoring, drivers, call, answer, missed>>

-----------------------------------------------------------------------------
(* The environment: keys that change the brightness, hotplug.  Events that  *)
(* come before the monitor is open are lost.                                *)

Send(k, event) ==
  events' = IF monitoring THEN [events EXCEPT ![k] = Append(@, event)]
            ELSE events

Keys(k) ==
  /\ alive /\ k \in plugged /\ Len(events[k]) < MaxEvents
  /\ \E v \in 0..MaxOf[k] : level' = [level EXCEPT ![k] = v]
  /\ call' = IF Busy THEN [call EXCEPT !.pressed = @ \cup {k}] ELSE call
  /\ IF k \in Reporting THEN Send(k, "change") /\ UNCHANGED silent
                        ELSE silent' = silent \cup {k} /\ UNCHANGED events
  /\ missed' = IF monitoring THEN missed ELSE missed \cup {k}
  /\ UNCHANGED <<alive, monitoring, plugged, timeout, kbds, objects, answer,
                 told>>

Hotplug(k) ==
  /\ alive /\ Len(events[k]) < MaxEvents
  /\ plugged' = IF k \in plugged THEN plugged \ {k} ELSE plugged \cup {k}
  /\ Send(k, IF k \in plugged THEN "remove" ELSE "add")
  /\ missed' = IF monitoring THEN missed ELSE missed \cup {k}
  /\ UNCHANGED <<alive, monitoring, level, timeout, kbds, objects, call, answer,
                 told, silent>>

Calls ==
  \/ \E D \in {kbds} \cup {{k} : k \in kbds} : Begin(D) \/ Get(D)
  \/ Reply

Next ==
  \/ Monitor \/ Calls
  \/ \E k \in Keyboards : Iterate(k) \/ UdevEvent(k) \/ Keys(k) \/ Hotplug(k)

Spec == Init /\ [][Next]_vars

-----------------------------------------------------------------------------
(* Properties *)

Settled(k) == alive /\ monitoring /\ events[k] = << >> /\ k \notin missed

\* Once its events are handled, a keyboard is known iff it is plugged, and
\* peers know the objects that the map has, in whatever order it came, went
\* and was written to; one that comes or goes while init has not yet opened
\* the monitor is not covered (keyboard.c:88-89).
KnownInSync ==
  /\ alive => objects = kbds
  /\ \A k \in Keyboards : Settled(k) => (k \in kbds <=> k \in plugged)

\* Once its events are handled, the last Changed signal since a keyboard was
\* added told its brightness, and one without a signal still has that which it
\* was added with: the signals of calls and of events, in any order, never
\* bring an older value back.  Only keys that send no event make it wrong
\* (keyboard.c:121), until the next signal.
ToldInSync ==
  \A k \in kbds \ silent : Settled(k) => Known(k) = level[k]

\* The value that the call under way is about has reached a keyboard; nobody
\* but keys overwrites it.
Reached(k) ==
  IF call.attr = "stop_timeout" THEN timeout[k] = call.value
  ELSE level[k] = Level(k, call.value) \/ k \in call.pressed

\* A Set or SetTimeout that answers yes has written on every keyboard it was
\* meant for: one that fails or is gone under way, before or after others that
\* succeed, is never covered up by them (keyboard.c:217-222, 277-282).
YesMeansAll ==
  [][Reply /\ answer' => \A k \in call.on : Reached(k)]_vars
=============================================================================
