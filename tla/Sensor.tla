------------------------------- MODULE Sensor -------------------------------
(***************************************************************************)
(* The Sensor module (sensor.c): Capture finds a sensor that has a device, *)
(* lets it take frames and replies with them, IsAvailable only finds it;   *)
(* the sensors' monitors make it signal devices that come and go.  The     *)
(* sensors (sensors/*.c) differ in the slot of `pct' that a frame goes to, *)
(* in what a failed read does and in the devices that they validate.       *)
(*                                                                         *)
(* A call blocks the daemon, but devices come, go and break meanwhile.     *)
(* PIPEWIRE, which keeps its devices itself, is the module PipeWire.       *)
(***************************************************************************)
EXTENDS Integers, Sequences, Folds, Functions, CustomSensor

CONSTANTS Supported,    \* sensors whose init_monitor succeeded
          Pluggable,    \* those whose devices are not built in
          Scripts,      \* names of the scripts of the custom sensor
          Values,       \* what a frame may measure, except the custom sensor's
          MaxCaptures,  \* SENSOR_MAX_CAPTURES (20 in the code)
          MaxPending,   \* events the monitors hold (bound)
          Nums          \* the numbers of frames that peers ask for

\* _SENSORS: lower index, higher priority
Priority == <<"ALS", "YOCTOLIGHT", "PIPEWIRE", "CAMERA", "CUSTOM">>
Kinds == {Priority[p] : p \in 1..5}

\* The devices of a sensor that matter to a caller: one, or many scripts
NodesOf(s) == IF s = "CUSTOM" THEN Scripts ELSE {s}
Nodes == Kinds \cup Scripts

ASSUME SensorAssumption ==
  /\ Supported \subseteq Kinds \ {"PIPEWIRE"} /\ Pluggable \subseteq Supported
  /\ Scripts \cap Kinds = {} /\ Values \subseteq Nat
  /\ MaxCaptures \in Nat /\ MaxPending \in Nat /\ Nums \subseteq Nat

VARIABLES device,   \* each node: not there, there and valid, or not valid
          pending,  \* events of each monitor, <<node, action>>, not handled
          told,     \* of each node: the action in the last Changed signal
          skipped,  \* scripts whose last events were read and not used (history)
          pc,       \* where the call is
          asked,    \* the sensors it may use, best first
          held,     \* devices that were fetched and not destroyed yet
          num,      \* num_captures, or 0 for IsAvailable
          ways,     \* capture methods of the ALS device: 1 buffer, 2 poll
          way,      \* the one in use
          settings, \* m and M of the caller, which the custom sensor reads
          i, ctr,   \* the capture loop
          pct,      \* the frames, from slot 0
          taken     \* values read in this call, in order (history)

world == <<device, pending, told, skipped>>
call  == <<asked, held, num, ways, settings>>
frame == <<ctr, pct, taken>>
vars  == <<world, pc, call, way, i, frame>>

TypeOK ==
  /\ device \in [Nodes -> {"none", "valid", "invalid"}]
  /\ pending \in [Kinds -> Seq(Nodes \X {"add", "remove"})]
  /\ told \in [Nodes -> {"none", "add", "remove"}]
  /\ skipped \subseteq Scripts
  /\ ways \in (SUBSET {1, 2}) \ {{}}
  /\ pc \in {"ready", "find", "capture", "reply", "dead"}
  /\ asked \in Seq(Kinds)
  /\ held \subseteq Kinds
  /\ num \in 0..MaxCaptures
  /\ way \in 1..3
  /\ settings \in Settings
  /\ i \in 0..MaxCaptures /\ ctr \in 0..i
  /\ pct \in [0..(MaxCaptures - 1) -> Nat]
  /\ taken \in Seq(Nat)

Blank == [slot \in 0..(MaxCaptures - 1) |-> 0]

\* A device that is built in and missing would be as one that does not validate.
Init ==
  /\ device \in [Nodes -> {"none", "valid"}]
  /\ \A s \in Kinds \ Supported : \A node \in NodesOf(s) : device[node] = "none"
  /\ \A s \in Supported \ Pluggable : \A node \in NodesOf(s) : device[node] = "valid"
  /\ pending = [s \in Kinds |-> << >>] /\ told = [node \in Nodes |-> "none"]
  /\ skipped = {}
  /\ ways = {1, 2} /\ settings = <<Unset, Unset>>
  /\ pc = "ready" /\ asked = << >> /\ held = {} /\ num = 0 /\ way = 1
  /\ i = 0 /\ ctr = 0 /\ pct = Blank /\ taken = << >>

\* A number of frames that is out of range is refused.
InRange(n) == 0 < n /\ n <= MaxCaptures

\* method_capturesensor, authorized, on the object of a sensor or on the main
\* one.
Begin(candidates, n) ==
  /\ pc = "ready"
  /\ pc' = "find" /\ asked' = candidates /\ num' = n
  /\ UNCHANGED <<world, held, ways, settings, way, i, frame>>

Call(candidates, n) == InRange(n) /\ Begin(candidates, n)

\* method_issensoravailable
IsAvailable(candidates) == Begin(candidates, 0)

\* is_sensor_available: the device, fetched, is kept only if it validates.
FetchedAnyway(s, node) == held \cup {s}
Fetched(s, node) == IF device[node] = "valid" THEN held \cup {s} ELSE held

\* find_available_sensor: the node is that of the interface in the call, or
\* what fetch_dev finds first; validate_dev tells how an ALS can be read.  The
\* settings, which only the custom sensor reads, are chosen when it is found.
Find ==
  /\ pc = "find" /\ asked # << >>
  /\ \E node \in NodesOf(Head(asked)) :
     LET s == Head(asked)
     IN  /\ held' = IF s \in Supported /\ device[node] # "none"
                      THEN Fetched(s, node) ELSE held
         /\ IF s \in Supported /\ device[node] = "valid"
              THEN /\ pc' = IF num = 0 THEN "reply" ELSE "capture"
                   /\ ways' \in IF s = "ALS" THEN (SUBSET {1, 2}) \ {{}}
                                ELSE {ways}
                   /\ settings' \in IF s = "CUSTOM" /\ num > 0 THEN Settings
                                    ELSE {settings}
                   /\ UNCHANGED asked
              ELSE asked' = Tail(asked) /\ UNCHANGED <<pc, ways, settings>>
  /\ UNCHANGED <<world, num, way, i, frame>>

FindNone ==
  /\ pc = "find" /\ asked = << >>
  /\ pc' = "reply"
  /\ UNCHANGED <<world, call, way, i, frame>>

-----------------------------------------------------------------------------
(* capture *)

sensor == Head(asked)

\* Only the ALS loops write slot i; the others write the next free one.
SlotOfLoop(s) == i
Slot(s) == IF s = "ALS" THEN i ELSE ctr

Usable == sensor = "ALS" => way \in ways

Frames ==
  IF sensor = "CUSTOM" THEN {Clamp(v, Limits(settings)) : v \in Illuminances}
  ELSE Values

\* One turn of the loop that reads a value.
Take ==
  /\ pc = "capture" /\ i < num /\ Usable
  /\ \E v \in Frames :
       /\ pct' = [pct EXCEPT ![Slot(sensor)] = v]
       /\ taken' = Append(taken, v)
  /\ i' = i + 1 /\ ctr' = ctr + 1
  /\ UNCHANGED <<world, pc, call, way>>

\* A transfer from Yoctolight that fails: what its packet holds counts as a
\* frame, be it the frame before or the notice that the device has started.
Repeat ==
  /\ pc = "capture" /\ i < num /\ sensor = "YOCTOLIGHT"
  /\ \E v \in IF ctr = 0 THEN Values ELSE {pct[ctr - 1]} :
       pct' = [pct EXCEPT ![Slot(sensor)] = v]
  /\ i' = i + 1 /\ ctr' = ctr + 1
  /\ UNCHANGED <<world, pc, call, way, taken>>

\* A turn that reads nothing.
Miss ==
  /\ pc = "capture" /\ i < num /\ Usable
  /\ sensor # "YOCTOLIGHT"
  /\ i' = i + 1
  /\ UNCHANGED <<world, pc, call, way, frame>>

\* The device cannot be started: no loop at all.  The custom sensor closes the
\* script that it could not open, which ends the daemon (custom.c:174).
Fail ==
  /\ pc = "capture" /\ i = 0 /\ Usable
  /\ i' = num
  /\ pc' = IF sensor = "CUSTOM" THEN "dead" ELSE pc
  /\ UNCHANGED <<world, call, way, frame>>

\* A loop ends with its turns, whether they read a value or not.
Ended == i = num \/ ~Usable

\* The ALS tries its next method as long as none gave a frame.
NextWay ==
  /\ pc = "capture" /\ Ended
  /\ sensor = "ALS" /\ ctr = 0 /\ way < 3
  /\ way' = way + 1 /\ i' = 0
  /\ pc' = IF way' = 3 THEN "reply" ELSE pc
  /\ UNCHANGED <<world, call, frame>>

Captured ==
  /\ pc = "capture" /\ Ended
  /\ sensor = "ALS" => ctr > 0
  /\ pc' = "reply"
  /\ UNCHANGED <<world, call, way, i, frame>>

-----------------------------------------------------------------------------

\* The answer: the first ctr slots; no frame at all is an error.
OnlyFull == ctr = num
Good == ctr > 0
Answer == IF Good THEN [slot \in 1..ctr |-> pct[slot - 1]] ELSE << >>

\* It is sent; the device and the slots are freed.
Reply ==
  /\ pc = "reply"
  /\ held' = IF asked = << >> THEN held ELSE held \ {sensor}
  /\ pc' = "ready"
  /\ asked' = << >> /\ num' = 0 /\ settings' = <<Unset, Unset>>
  /\ i' = 0 /\ ctr' = 0 /\ pct' = Blank /\ way' = 1 /\ ways' = {1, 2}
  /\ taken' = << >>
  /\ UNCHANGED world

-----------------------------------------------------------------------------
(* Monitors *)

\* validate_dev of a device that a monitor reports, which may have gone or come
\* back since.  The ALS and Yoctolight read its attributes, the camera opens it;
\* if it cannot, a removal is taken at its word.
AcceptsOpened(s, node, action) == s = "CUSTOM" \/ device[node] = "valid"
Accepts(s, node, action) ==
  \/ s = "CUSTOM" \/ device[node] = "valid"
  \/ s = "YOCTOLIGHT" /\ device[node] = "invalid" /\ action = "remove"
  \/ s = "CAMERA" /\ device[node] = "none" /\ action = "remove"

\* fetch_props_dev: the custom sensor looks whether the script is there.
Action(s, node, action) ==
  IF s # "CUSTOM" THEN action
  ELSE IF device[node] = "none" THEN "remove" ELSE "add"

\* recv_monitor takes one event from a udev monitor; that of the custom sensor
\* reads several events, also of several scripts, and uses the first.
Reads(s) == IF s = "CUSTOM" THEN 1..Len(pending[s]) ELSE {1}

\* receive: signal the device, if it is accepted, and destroy it.
Receive(s) ==
  /\ pc = "ready" /\ pending[s] # << >>
  /\ LET node == Head(pending[s])[1]
         action == Head(pending[s])[2]
     IN  /\ told' = IF Accepts(s, node, action)
                      THEN [told EXCEPT ![node] = Action(s, node, action)]
                      ELSE told
         /\ \E read \in Reads(s) :
              /\ pending' = [pending EXCEPT ![s] = SubSeq(@, read + 1, Len(@))]
              /\ skipped' = (skipped \cup {pending[s][k][1] : k \in 2..read})
                              \ {node}
  /\ UNCHANGED <<device, pc, call, way, i, frame>>

\* The environment: a device comes, goes, or becomes busy or free, of which
\* there is no event.  What it does during a capture is in Repeat, Miss and
\* Fail; as nothing else looks at it then, its event may as well come after the
\* call.
Event(node, state) ==
  IF device[node] = "none" THEN <<<<node, "add">>>>
  ELSE IF state = "none" THEN <<<<node, "remove">>>> ELSE << >>

Waiting == FoldFunction(LAMBDA queue, n : Len(queue) + n, 0, pending)

\* Scripts always validate.
States(s) == {"none", "valid"} \cup (IF s = "CUSTOM" THEN {} ELSE {"invalid"})

Hotplug(s, node) ==
  /\ pc \in {"ready", "find"}
  /\ \E state \in States(s) \ {device[node]} :
       /\ s \in Pluggable \/ "none" \notin {state, device[node]}
       /\ device' = [device EXCEPT ![node] = state]
       /\ pending' = [pending EXCEPT ![s] = @ \o Event(node, state)]
       /\ Waiting < MaxPending
  /\ UNCHANGED <<told, skipped, pc, call, way, i, frame>>

-----------------------------------------------------------------------------

Steps ==
  \/ Find \/ FindNone
  \/ Take \/ Repeat \/ Miss \/ Fail \/ NextWay \/ Captured
  \/ Reply

Calls ==
  \E candidates \in {Priority} \cup {<<s>> : s \in Supported} :
    \/ IsAvailable(candidates)
    \/ \E n \in Nums : Call(candidates, n)

Next ==
  \/ Steps \/ Calls
  \/ \E s \in Supported : Receive(s) \/ \E node \in NodesOf(s) : Hotplug(s, node)

Spec == Init /\ [][Next]_vars

-----------------------------------------------------------------------------
(* Properties *)

\* The reply of a camera or script holds exactly the frames that were taken, in
\* their order, also when some reads fail or it is lost under way (camera.c:115,
\* custom.c:168).  That of the ALS may not (FramesActuallyCaptured), and
\* Yoctolight ignores whether a transfer failed (yoctolight.c:341).
ReplyIsTaken ==
  pc = "reply" /\ asked # << >> /\ sensor \notin {"ALS", "YOCTOLIGHT"} =>
    Answer = taken

\* A call that took a frame, by whichever method, does not reply an error, and
\* one that replies with frames took some (sensor.c:223-227), but Yoctolight may
\* have taken none (yoctolight.c:341).
ErrorOnlyIfNothing ==
  pc = "reply" =>
    /\ taken # << >> => Answer # << >>
    /\ Answer # << >> /\ sensor # "YOCTOLIGHT" => taken # << >>

\* No call leaks a device: those that it fetched were destroyed, those that
\* did not validate and the one in use alike (sensor.c:133-144, 241-244).
NoDeviceLeft == pc = "ready" => held = {}

\* Whatever settings are passed and whatever the script prints, a frame of the
\* custom sensor is a ratio from 0 to 1 unless the caller asks for a maximum of
\* 0: the sanity checks leave a range that is not empty (custom.c:133-149).
FrameIsRatio ==
  pc = "reply" /\ asked # << >> /\ sensor = "CUSTOM" =>
    /\ settings[2] # 0 => Limits(settings)[2] > 0
    /\ \A k \in 1..Len(Answer) : Answer[k] \in 0..Limits(settings)[2]

\* Peers do not go on believing in a camera or script that has gone: if it was
\* last signalled as added, an event of it waits.  Its removal is signalled
\* although it cannot be opened any more, and although it may have come back, or
\* been replaced by a device that is not accepted, when its earlier events are
\* handled (camera.c:58-66, custom.c:54-65).  A script is told as it is now, so
\* that its later events may be lost in the same read, but not those of another
\* one (custom.c:81, skipped).  An ALS or Yoctolight that has gone is not
\* signalled: its attributes cannot be read.
RemovalTold ==
  \A s \in {"CAMERA", "CUSTOM"} : \A node \in NodesOf(s) \ skipped :
    device[node] = "none" /\ told[node] = "add" =>
      \E k \in 1..Len(pending[s]) : pending[s][k][1] = node

\* The reply is made of the frames actually captured (sensor.h:54).
FramesActuallyCaptured == pc = "reply" => Answer = taken
=============================================================================
