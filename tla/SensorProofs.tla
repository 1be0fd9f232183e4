---------------------------- MODULE SensorProofs ----------------------------
(***************************************************************************)
(* Proofs about Sensor, for any sensors, frames, settings and limits, and  *)
(* about Camera, for any controls, defaults and requests.                  *)
(***************************************************************************)
EXTENDS Sensor, Camera, SequenceTheorems, TLAPS

Slots == 0..(MaxCaptures - 1)

Types ==
  /\ asked \in Seq(Kinds)
  /\ num \in 0..MaxCaptures
  /\ i \in Nat /\ ctr \in Nat
  /\ settings \in Settings
  /\ taken \in Seq(Int)
  /\ pct \in [Slots -> Int]

\* A call owns the device of the sensor it has found and no other.
Owned ==
  /\ pc \in {"ready", "find"} => held = {}
  /\ asked = << >> => held = {} /\ pc # "capture"
  /\ asked # << >> => held \subseteq {Head(asked)}

Repeating == asked # << >> /\ Head(asked) = "YOCTOLIGHT"

\* Each turn of the loop takes a frame at most, and a new loop starts only if
\* none was taken: no slot beyond the array is written.  Only Yoctolight counts
\* more frames than it takes.
Counted ==
  /\ Len(taken) <= ctr /\ ctr <= i /\ i <= num
  /\ ~Repeating => ctr = Len(taken)
  /\ pc \in {"ready", "find"} => i = 0

\* Except for the ALS and Yoctolight, the frames are in the first slots, in
\* their order.
Ordered ==
  pc \in {"capture", "reply"} /\ asked # << >>
  /\ Head(asked) \notin {"ALS", "YOCTOLIGHT"} =>
    \A k \in 1..Len(taken) : pct[k - 1] = taken[k]

\* The custom sensor clamps each frame that it takes.
Clamped ==
  pc \in {"capture", "reply"} /\ asked # << >> /\ Head(asked) = "CUSTOM" =>
    \A k \in 1..Len(taken) : taken[k] \in 0..Limits(settings)[2]

Inv == Types /\ Owned /\ Counted /\ Ordered /\ Clamped

\* The sanity checks of the custom sensor leave a range that is not empty and
\* has a maximum above 0 unless the caller passes 0; a frame is clamped to it
\* (custom.c:133-149).
LEMMA LimitsLemma ==
  ASSUME NEW s \in Settings
  PROVE  /\ Limits(s)[1] \in Nat /\ Limits(s)[2] \in Nat
         /\ Limits(s)[1] <= Limits(s)[2]
         /\ s[2] # 0 => Limits(s)[2] > 0
         /\ \A v \in Int : Clamp(v, Limits(s)) \in 0..Limits(s)[2]
<1> DEFINE m == Passed(s[1], IllMin)
           n == Passed(s[2], IllMax)
<1>1. IllMin \in Nat /\ IllMax \in Nat \ {0} /\ m \in Int /\ n \in Int
  <2>1. s[1] \in Parsed \cup {Unset} /\ s[2] \in Parsed \cup {Unset}
    BY DEF Settings
  <2>2. IllMin \in Nat /\ IllMax \in Nat \ {0} /\ Parsed \subseteq Int
    BY CustomAssumption
  <2>3. \A x \in Parsed \cup {Unset}, default \in Int :
          Passed(x, default) \in Int
    BY <2>2 DEF Passed
  <2>4. IllMin \in Int /\ IllMax \in Int
    BY <2>2
  <2>5. m \in Int /\ n \in Int
    BY <2>1, <2>3, <2>4, Zenon
  <2> QED
    BY <2>2, <2>5
<1>2. s[2] # 0 => n # 0
  BY <1>1 DEF Passed
<1> HIDE DEF m, n
<1>3. SaneMin(m) \in Nat /\ SaneMax(n) \in Nat /\ (n # 0 => SaneMax(n) > 0)
  BY <1>1 DEF SaneMin, SaneMax
<1>4. Limits(s) = Sane(m, n)
  BY DEF Limits, m, n
<1>5. /\ Sane(m, n)[1] \in Nat /\ Sane(m, n)[2] \in Nat
      /\ Sane(m, n)[1] <= Sane(m, n)[2]
      /\ n # 0 => Sane(m, n)[2] > 0
  BY <1>1, <1>3 DEF Sane
<1> QED
  BY <1>2, <1>4, <1>5 DEF Clamp

\* No device is leaked, a call to a camera or script that took frames replies
\* them, all of them and in their order, one that took none replies an error,
\* unless it asked a Yoctolight, and a frame of the custom sensor is a ratio
\* (sensor.c:133-144, 223-227, 241-244).
THEOREM RepliesCorrect ==
  Spec => [](NoDeviceLeft /\ ErrorOnlyIfNothing /\ ReplyIsTaken /\ FrameIsRatio)
<1> USE DEF world, call, frame, sensor
<1>1. Init => Inv
  <2> SUFFICES ASSUME Init PROVE Inv
    OBVIOUS
  <2>1. Types
    <3>1. Blank \in [Slots -> Int]
      BY DEF Blank, Slots
    <3>2. << >> \in Seq(Kinds) /\ << >> \in Seq(Int)
      BY EmptySeq
    <3>3. <<Unset, Unset>> \in Settings
      BY DEF Settings
    <3> QED
      BY <3>1, <3>2, <3>3, SensorAssumption DEF Init, Types
  <2> QED
    BY <2>1, EmptySeq DEF Init, Inv, Owned, Counted, Ordered, Clamped
<1>2. Inv /\ [Next]_vars => Inv'
  <2> SUFFICES ASSUME Inv, [Next]_vars PROVE Inv'
    OBVIOUS
  <2> USE DEF Inv
  <2>1. ASSUME NEW candidates \in {Priority} \cup {<<s>> : s \in Supported},
               NEW n \in 0..MaxCaptures, Begin(candidates, n)
        PROVE  Inv'
    <3>1. candidates \in Seq(Kinds) /\ candidates # << >>
      <4>1. \A s \in Kinds : <<s>> \in Seq(Kinds) /\ <<s>> # << >>
        OBVIOUS
      <4>2. \A p \in 1..5 : Priority[p] \in Kinds
        BY DEF Kinds
      <4>3. Priority \in Seq(Kinds) /\ Priority # << >>
        BY <4>2 DEF Priority
      <4> QED
        BY <4>1, <4>3, SensorAssumption
    <3> QED
      BY <2>1, <3>1 DEF Begin, Types, Owned, Counted, Ordered, Clamped, Repeating
  <2>2. CASE Find
    <3>1. asked \in Seq(Kinds) /\ Head(asked) \in Kinds /\ Tail(asked) \in Seq(Kinds)
          /\ held = {} /\ i = 0 /\ Len(taken) = 0 /\ asked # << >> /\ pc = "find"
      BY <2>2, HeadTailProperties DEF Find, Types, Owned, Counted
    <3>2. settings' \in Settings
      BY <2>2 DEF Find, Types
    <3>3. UNCHANGED <<num, i, ctr, pct, taken>>
      BY <2>2 DEF Find
    <3>4. \/ pc' \in {"reply", "capture"} /\ asked' = asked
             /\ held' \subseteq {Head(asked)}
          \/ pc' = pc /\ asked' = Tail(asked) /\ held' = {}
      BY <2>2, <3>1 DEF Find, Fetched
    <3>5. Types' /\ Counted'
      BY <3>1, <3>2, <3>3, <3>4 DEF Types, Counted
    <3>6. Ordered' /\ Clamped'
      BY <3>1, <3>3 DEF Ordered, Clamped
    <3>7. Owned'
      BY <3>1, <3>4 DEF Owned
    <3> QED
      BY <3>5, <3>6, <3>7
  <2>3. CASE FindNone
    BY <2>3 DEF FindNone, Types, Owned, Counted, Ordered, Clamped, Repeating
  <2>4. CASE Take
    <3>1. PICK v \in Frames : /\ pct' = [pct EXCEPT ![Slot(sensor)] = v]
                              /\ taken' = Append(taken, v)
      BY <2>4 DEF Take
    <3>2. /\ pc = "capture" /\ i < num /\ i' = i + 1 /\ ctr' = ctr + 1
          /\ UNCHANGED <<asked, num, settings, held, pc>>
      BY <2>4 DEF Take
    <3>3. /\ v \in Int
          /\ sensor = "CUSTOM" => v \in 0..Limits(settings)[2]
      <4>1. settings \in Settings
        BY DEF Types
      <4>2. CASE sensor = "CUSTOM"
        <5>1. PICK w \in Illuminances : v = Clamp(w, Limits(settings))
          BY <4>2 DEF Frames
        <5>2. v \in 0..Limits(settings)[2] /\ Limits(settings)[2] \in Nat
          BY <4>1, <5>1, LimitsLemma, CustomAssumption
        <5> QED
          BY <5>2
      <4>3. CASE sensor # "CUSTOM"
        <5>1. Frames = Values
          BY <4>3, Zenon DEF Frames
        <5> QED
          BY <4>3, <5>1, SensorAssumption
      <4> QED
        BY <4>2, <4>3
    <3>4. /\ taken' \in Seq(Int) /\ Len(taken') = Len(taken) + 1
          /\ taken'[Len(taken) + 1] = v
          /\ \A k \in 1..Len(taken) : taken'[k] = taken[k]
      BY <3>1, <3>3, AppendProperties DEF Types
    <3>5. pct' \in [Slots -> Int]
      BY <3>1, <3>3 DEF Types
    <3>6. Ordered'
      <4> SUFFICES ASSUME sensor \notin {"ALS", "YOCTOLIGHT"}, asked # << >>,
                          NEW k \in 1..Len(taken')
                   PROVE  pct'[k - 1] = taken'[k]
        BY <3>2 DEF Ordered
      <4>1. Slot(sensor) = Len(taken) /\ Slot(sensor) \in Slots
        BY <3>2, SensorAssumption DEF Slot, Slots, Counted, Types, Repeating
      <4>2. CASE k = Len(taken) + 1
        BY <3>1, <3>4, <4>1, <4>2 DEF Types
      <4>3. CASE k \in 1..Len(taken)
        BY <3>1, <3>2, <3>4, <4>1, <4>3 DEF Types, Ordered, Slots
      <4> QED
        BY <3>4, <4>2, <4>3
    <3>7. Clamped'
      BY <3>2, <3>3, <3>4 DEF Clamped
    <3> QED
      BY <3>2, <3>4, <3>5, <3>6, <3>7 DEF Types, Owned, Counted, Repeating
  <2>13. CASE Repeat
    <3>1. /\ pc = "capture" /\ i < num /\ Head(asked) = "YOCTOLIGHT"
          /\ i' = i + 1 /\ ctr' = ctr + 1
          /\ UNCHANGED <<asked, num, settings, held, pc, taken>>
      BY <2>13 DEF Repeat
    <3>2. PICK v \in IF ctr = 0 THEN Values ELSE {pct[ctr - 1]} :
            pct' = [pct EXCEPT ![Slot(sensor)] = v]
      BY <2>13 DEF Repeat
    <3>3. ctr # 0 => ctr - 1 \in Slots
      BY <3>1, SensorAssumption DEF Types, Counted, Slots
    <3>4. v \in Int
      BY <3>2, <3>3, SensorAssumption DEF Types
    <3>5. pct' \in [Slots -> Int]
      BY <3>2, <3>4 DEF Types
    <3>6. Types' /\ Owned'
      BY <3>1, <3>5 DEF Types, Owned
    <3>7. asked # << >>
      BY <3>1 DEF Owned
    <3>8. Counted'
      <4>1. Repeating'
        BY <3>1, <3>7 DEF Repeating
      <4>2. /\ Len(taken) \in Nat /\ ctr \in Nat /\ i \in Nat /\ num \in Nat
            /\ Len(taken) <= ctr /\ ctr <= i
        BY SensorAssumption, LenProperties DEF Types, Counted
      <4>3. Len(taken') <= ctr' /\ ctr' <= i' /\ i' <= num'
        BY <3>1, <4>2
      <4> QED
        BY <3>1, <4>1, <4>3 DEF Counted
    <3> QED
      BY <3>1, <3>6, <3>8 DEF Ordered, Clamped
  <2>5. CASE Miss
    BY <2>5 DEF Miss, Types, Owned, Counted, Ordered, Clamped, Repeating
  <2>6. CASE Fail
    BY <2>6 DEF Fail, Types, Owned, Counted, Ordered, Clamped, Repeating
  <2>7. CASE NextWay
    <3>1. /\ pc = "capture" /\ Head(asked) = "ALS" /\ ctr = 0 /\ i' = 0
          /\ pc' \in {"capture", "reply"}
          /\ UNCHANGED <<call, frame>>
      BY <2>7 DEF NextWay
    <3>2. Types' /\ Owned'
      BY <3>1 DEF Types, Owned
    <3>3. Counted'
      <4>1. i' = 0 /\ ctr' = ctr /\ ctr = 0 /\ num' = num /\ taken' = taken
        BY <3>1
      <4>2. 0 <= num
        BY SensorAssumption DEF Types
      <4> QED
        <5>1. ctr' = Len(taken')
          BY <4>1 DEF Counted
        <5>2. ctr' <= i'
          BY <4>1
        <5>3. i' <= num'
          BY <4>1, <4>2
        <5> QED
          BY <4>1, <5>1, <5>2, <5>3 DEF Counted
    <3> QED
      BY <3>1, <3>2, <3>3 DEF Ordered, Clamped
  <2>8. CASE Captured
    BY <2>8 DEF Captured, Types, Owned, Counted, Ordered, Clamped, Repeating
  <2>9. CASE Reply
    <3>1. Blank \in [Slots -> Int] /\ <<Unset, Unset>> \in Settings
      BY DEF Blank, Slots, Settings
    <3>2. held' = {}
      BY <2>9 DEF Reply, Owned
    <3>3. << >> \in Seq(Kinds) /\ << >> \in Seq(Int)
      BY EmptySeq
    <3> QED
      BY <2>9, <3>1, <3>2, <3>3, SensorAssumption
      DEF Reply, Types, Owned, Counted, Ordered, Clamped, Repeating
  <2>10. ASSUME NEW s \in Supported,
                Receive(s) \/ \E node \in NodesOf(s) : Hotplug(s, node)
         PROVE  Inv'
    <3>1. UNCHANGED <<pc, call, way, i, frame>>
      BY <2>10 DEF Receive, Hotplug
    <3> QED
      BY <3>1 DEF Types, Owned, Counted, Ordered, Clamped, Repeating
  <2>11. CASE UNCHANGED vars
    BY <2>11 DEF vars, Types, Owned, Counted, Ordered, Clamped, Repeating
  <2>12. CASE Calls
    <3>1. PICK candidates \in {Priority} \cup {<<s>> : s \in Supported} :
            IsAvailable(candidates) \/ \E n \in Nums : Call(candidates, n)
      BY <2>12 DEF Calls
    <3>2. \E n \in 0..MaxCaptures : Begin(candidates, n)
      BY <3>1, SensorAssumption DEF IsAvailable, Call, InRange
    <3> QED
      BY <2>1, <3>2
  <2> QED
    BY <2>2, <2>3, <2>4, <2>5, <2>6, <2>7, <2>8, <2>9, <2>10, <2>11, <2>12,
       <2>13
    DEF Next, Steps
<1>3. Inv => NoDeviceLeft /\ ErrorOnlyIfNothing /\ ReplyIsTaken /\ FrameIsRatio
  <2> SUFFICES ASSUME Inv
               PROVE  /\ NoDeviceLeft /\ ErrorOnlyIfNothing
                      /\ ReplyIsTaken /\ FrameIsRatio
    OBVIOUS
  <2> USE DEF Inv
  <2>1. NoDeviceLeft
    BY DEF NoDeviceLeft, Owned
  <2>2. /\ Answer = << >> <=> ctr = 0
        /\ taken = << >> <=> Len(taken) = 0
        /\ Len(taken) <= ctr
        /\ ctr > 0 => Answer = [slot \in 1..ctr |-> pct[slot - 1]]
    BY EmptySeq DEF Answer, Good, Counted, Types
  <2>3. ErrorOnlyIfNothing
    <3>1. Len(taken) \in Nat /\ ctr \in Nat
      BY LenProperties DEF Types
    <3>2. ctr # 0 /\ sensor # "YOCTOLIGHT" => Len(taken) = ctr
      BY DEF Counted, Repeating
    <3> QED
      BY <2>2, <3>1, <3>2 DEF ErrorOnlyIfNothing
  <2>4. ReplyIsTaken
    <3> SUFFICES ASSUME pc = "reply", asked # << >>,
                        sensor \notin {"ALS", "YOCTOLIGHT"}
                 PROVE  Answer = taken
      BY DEF ReplyIsTaken
    <3>3. ctr = Len(taken)
      BY DEF Counted, Repeating
    <3>1. CASE Len(taken) = 0
      BY <2>2, <3>1, <3>3
    <3>2. CASE Len(taken) > 0
      <4>1. \A k \in 1..Len(taken) : pct[k - 1] = taken[k]
        BY DEF Ordered
      <4>2. taken = [slot \in 1..Len(taken) |-> taken[slot]]
        BY LenProperties DEF Types
      <4> QED
        BY <2>2, <3>2, <3>3, <4>1, <4>2
    <3> QED
      BY <3>1, <3>2, LenProperties DEF Types
  <2>5. FrameIsRatio
    <3> SUFFICES ASSUME pc = "reply", asked # << >>, sensor = "CUSTOM"
                 PROVE  /\ settings[2] # 0 => Limits(settings)[2] > 0
                        /\ \A k \in 1..Len(Answer) :
                             Answer[k] \in 0..Limits(settings)[2]
      BY DEF FrameIsRatio
    <3>1. Answer = taken
      BY <2>4 DEF ReplyIsTaken
    <3>2. settings[2] # 0 => Limits(settings)[2] > 0
      BY LimitsLemma DEF Types
    <3> QED
      BY <3>1, <3>2 DEF Clamped
  <2> QED
    BY <2>1, <2>3, <2>4, <2>5
<1> QED
  BY <1>1, <1>2, <1>3, PTL DEF Spec

-----------------------------------------------------------------------------
(* What is signalled of devices *)

Actions == {"add", "remove"}
Events == Nodes \X Actions

Waits(s, node) == \E k \in 1..Len(pending[s]) : pending[s][k][1] = node

MonitorTypes ==
  /\ device \in [Nodes -> {"none", "valid", "invalid"}]
  /\ pending \in [Kinds -> Seq(Events)]
  /\ \A s \in Kinds : pending[s] \in Seq(NodesOf(s) \X Actions)
  /\ told \in [Nodes -> {"none", "add", "remove"}]

\* While there is no camera, the last event that waits is its removal, and one
\* waits if peers were told that it was added.
CameraAwaited ==
  device["CAMERA"] = "none" =>
    /\ pending["CAMERA"] # << >> =>
         pending["CAMERA"][Len(pending["CAMERA"])][2] = "remove"
    /\ told["CAMERA"] = "add" => pending["CAMERA"] # << >>

\* While a script is not there, an event of it waits if peers were told that it
\* was added; that event is told as a removal.
ScriptAwaited(script) ==
  device[script] = "none" /\ told[script] = "add" => Waits("CUSTOM", script)

MonitorInv ==
  /\ MonitorTypes
  /\ CameraAwaited
  /\ \A script \in Scripts \ skipped : ScriptAwaited(script)

\* A camera, or a script whose events were not lost to those of another, that
\* was last signalled as added and has gone has an event that waits, for any
\* scripts and queues of any length (camera.c:58-66, custom.c:54-91).
THEOREM RemovalsSignalled == Spec => []RemovalTold
<1> USE DEF world, Actions, Events
<1>1. {"CAMERA", "CUSTOM"} \subseteq Kinds
  BY DEF Kinds, Priority
<1>2. /\ Scripts \cap Kinds = {} /\ Kinds \subseteq Nodes /\ Scripts \subseteq Nodes
      /\ NodesOf("CAMERA") = {"CAMERA"} /\ NodesOf("CUSTOM") = Scripts
      /\ \A s \in Kinds : NodesOf(s) \subseteq Nodes
      /\ Supported \subseteq Kinds
  BY SensorAssumption DEF Nodes, NodesOf
<1>3. Init => MonitorInv
  <2> SUFFICES ASSUME Init PROVE MonitorInv
    OBVIOUS
  <2>1. << >> \in Seq(Events) /\ Len(<< >>) = 0
    BY EmptySeq
  <2> QED
    BY <1>1, <1>2, <2>1
    DEF Init, MonitorInv, MonitorTypes, CameraAwaited, ScriptAwaited
<1>4. MonitorInv /\ [Next]_vars => MonitorInv'
  <2> SUFFICES ASSUME MonitorInv, [Next]_vars PROVE MonitorInv'
    OBVIOUS
  <2> USE DEF MonitorInv
  <2>1. CASE UNCHANGED world
    BY <2>1 DEF MonitorTypes, CameraAwaited, ScriptAwaited, Waits
  <2>2. ASSUME NEW s \in Supported, Receive(s) PROVE MonitorInv'
    <3> DEFINE queue == pending[s]
               node == queue[1][1]
               action == queue[1][2]
    <3>1. /\ s \in Kinds /\ queue \in Seq(NodesOf(s) \X Actions)
          /\ queue # << >> /\ Len(queue) \in Nat \ {0} /\ Head(queue) = queue[1]
          /\ queue[1] \in NodesOf(s) \X Actions
      BY <1>2, <2>2, EmptySeq, HeadTailProperties DEF Receive, MonitorTypes
    <3>2. node \in NodesOf(s) /\ node \in Nodes /\ action \in Actions
      BY <1>2, <3>1
    <3>3. PICK read \in Reads(s) :
            /\ pending' = [pending EXCEPT ![s] = SubSeq(queue, read + 1, Len(queue))]
            /\ skipped' = (skipped \cup {queue[k][1] : k \in 2..read}) \ {node}
      BY <2>2, <3>1 DEF Receive
    <3>4. /\ told' = IF Accepts(s, node, action)
                       THEN [told EXCEPT ![node] = Action(s, node, action)]
                       ELSE told
          /\ device' = device
      BY <2>2, <3>1 DEF Receive
    <3> DEFINE rest == SubSeq(queue, read + 1, Len(queue))
    <3>5. read \in 1..Len(queue)
      BY <3>1 DEF Reads
    <3>6. /\ rest \in Seq(NodesOf(s) \X Actions) /\ Len(rest) = Len(queue) - read
          /\ \A k \in 1..Len(rest) : rest[k] = queue[k + read]
      <4>1. /\ read \in Int /\ read + 1 \in Int /\ Len(queue) \in Int
            /\ 1 <= read /\ read <= Len(queue)
        BY <3>1, <3>5
      <4>2. \A k \in (read + 1)..Len(queue) :
              queue[k] \in NodesOf(s) \X Actions
        <5> SUFFICES ASSUME NEW k \in (read + 1)..Len(queue)
                     PROVE  queue[k] \in NodesOf(s) \X Actions
          OBVIOUS
        <5>1. k \in 1..Len(queue)
          BY <4>1
        <5> QED
          BY <3>1, <5>1, ElementOfSeq
      <4>3. /\ rest \in Seq(NodesOf(s) \X Actions)
            /\ Len(rest) = IF read + 1 <= Len(queue)
                             THEN Len(queue) - (read + 1) + 1 ELSE 0
            /\ \A k \in 1..(Len(queue) - (read + 1) + 1) :
                 rest[k] = queue[(read + 1) + k - 1]
        <5> HIDE DEF queue
        <5> QED
          BY <4>1, <4>2, SubSeqProperties
      <4>4. Len(rest) = Len(queue) - read
        BY <4>1, <4>3
      <4>5. \A k \in 1..Len(rest) : rest[k] = queue[k + read]
        <5> SUFFICES ASSUME NEW k \in 1..Len(rest)
                     PROVE  rest[k] = queue[k + read]
          OBVIOUS
        <5>1. k \in 1..(Len(queue) - (read + 1) + 1)
          BY <4>1, <4>4
        <5>2. (read + 1) + k - 1 = k + read
          BY <4>1, <5>1
        <5> HIDE DEF queue, rest
        <5> QED
          BY <4>3, <5>1, <5>2
      <4> QED
        BY <4>3, <4>4, <4>5
    <3>7. Action(s, node, action) \in Actions
      BY <3>2 DEF Action
    <3>8. /\ pending'[s] = rest
          /\ \A other \in Kinds \ {s} : pending'[other] = pending[other]
      BY <3>1, <3>3 DEF MonitorTypes
    <3>9. /\ \A other \in Nodes \ {node} : told'[other] = told[other]
          /\ Accepts(s, node, action) => told'[node] = Action(s, node, action)
      BY <3>2, <3>4 DEF MonitorTypes
    <3>10. queue[1] = <<node, action>>
      BY <3>1
    <3> HIDE DEF node, action, rest
    <3>11. MonitorTypes'
      <4>1. rest \in Seq(Events)
        <5>1. NodesOf(s) \X Actions \subseteq Events
          BY <1>2, <3>1
        <5> QED
          BY <3>6, <5>1, SeqMonotonic
      <4>2. pending' \in [Kinds -> Seq(Events)]
        BY <3>1, <3>3, <4>1 DEF MonitorTypes, rest
      <4>3. \A t \in Kinds : pending'[t] \in Seq(NodesOf(t) \X Actions)
        BY <3>6, <3>8 DEF MonitorTypes
      <4>4. told' \in [Nodes -> {"none", "add", "remove"}]
        BY <3>2, <3>4, <3>7 DEF MonitorTypes
      <4> QED
        BY <3>4, <4>2, <4>3, <4>4 DEF MonitorTypes
    <3>12. CameraAwaited'
      <4>1. CASE s = "CAMERA"
        <5>1. node = "CAMERA" /\ read = 1
          BY <1>2, <3>2, <3>3, <4>1 DEF Reads
        <5>2. ASSUME device["CAMERA"] = "none"
              PROVE  /\ rest # << >> => rest[Len(rest)][2] = "remove"
                     /\ told'["CAMERA"] = "add" => rest # << >>
          <6>1. queue[Len(queue)][2] = "remove"
            BY <3>1, <4>1, <5>2 DEF CameraAwaited
          <6>2. ASSUME rest # << >> PROVE rest[Len(rest)][2] = "remove"
            <7>1. Len(rest) \in Nat \ {0}
              BY <3>6, <6>2, EmptySeq
            <7>4. Len(rest) = Len(queue) - 1 /\ Len(queue) \in Nat
              BY <3>1, <3>6, <5>1
            <7>2. Len(rest) \in 1..Len(rest) /\ Len(rest) + 1 = Len(queue)
              <8> DEFINE m == Len(rest)
                         n == Len(queue)
              <8>1. m \in Nat \ {0} /\ n \in Nat /\ m = n - 1
                BY <7>1, <7>4
              <8> HIDE DEF m, n
              <8>2. m \in 1..m /\ m + 1 = n
                BY <8>1
              <8> QED
                BY <8>2 DEF m, n
            <7>3. rest[Len(rest)] = queue[Len(rest) + 1]
              BY <3>6, <5>1, <7>2
            <7> QED
              BY <6>1, <7>2, <7>3
          <6>3. ASSUME rest = << >> PROVE told'["CAMERA"] # "add"
            <7>1. Len(queue) = 1
              BY <3>1, <3>6, <5>1, <6>3, EmptySeq
            <7>2. action = "remove"
              BY <3>10, <6>1, <7>1
            <7> QED
              BY <3>9, <4>1, <5>1, <5>2, <7>2 DEF Accepts, Action
          <6> QED
            BY <6>2, <6>3
        <5> QED
          BY <3>4, <3>8, <4>1, <5>2 DEF CameraAwaited
      <4>2. CASE s # "CAMERA"
        <5>1. pending'["CAMERA"] = pending["CAMERA"]
          BY <1>1, <3>8, <4>2
        <5>2. node # "CAMERA"
          BY <1>1, <1>2, <3>1, <3>2, <4>2 DEF NodesOf
        <5>3. told'["CAMERA"] = told["CAMERA"]
          BY <1>1, <1>2, <3>9, <5>2
        <5> QED
          BY <3>4, <5>1, <5>3 DEF CameraAwaited
      <4> QED
        BY <4>1, <4>2
    <3>13. ASSUME NEW script \in Scripts \ skipped', device[script] = "none",
                  told'[script] = "add"
           PROVE  Waits("CUSTOM", script)'
      <4>1. CASE s = "CUSTOM"
        <5>1. node # script
          BY <3>9, <3>13, <4>1 DEF Accepts, Action
        <5>2. told[script] = "add" /\ script \notin skipped
          BY <1>2, <3>3, <3>9, <3>13, <5>1
        <5>3. PICK k \in 1..Len(queue) : queue[k][1] = script
          BY <3>13, <4>1, <5>2 DEF ScriptAwaited, Waits
        <5>4. k # 1 /\ k \notin 2..read
          BY <3>3, <3>10, <3>13, <5>1, <5>3
        <5>5. PICK j \in 1..Len(rest) : j + read = k
          <6>1. k - read \in 1..Len(rest) /\ (k - read) + read = k
            BY <3>1, <3>5, <3>6, <5>3, <5>4
          <6> QED
            BY <6>1
        <5>6. rest[j] = queue[k]
          BY <3>6, <5>5
        <5> QED
          BY <3>8, <4>1, <5>3, <5>6 DEF Waits
      <4>2. CASE s # "CUSTOM"
        <5>1. node # script /\ node \notin Scripts
          BY <1>2, <3>1, <3>2, <4>2 DEF NodesOf
        <5>2. read = 1
          BY <3>3, <4>2 DEF Reads
        <5>3. told[script] = "add" /\ script \notin skipped
          BY <1>2, <3>3, <3>9, <3>13, <5>1
        <5>4. Waits("CUSTOM", script)
          BY <3>13, <5>3 DEF ScriptAwaited
        <5> QED
          BY <1>1, <3>8, <4>2, <5>4 DEF Waits
      <4> QED
        BY <4>1, <4>2
    <3> QED
      BY <3>4, <3>11, <3>12, <3>13 DEF ScriptAwaited
  <2>3. ASSUME NEW s \in Supported, NEW node \in NodesOf(s), Hotplug(s, node)
        PROVE  MonitorInv'
    <3> DEFINE queue == pending[s]
    <3>1. PICK state \in States(s) \ {device[node]} :
            /\ device' = [device EXCEPT ![node] = state]
            /\ pending' = [pending EXCEPT ![s] = queue \o Event(node, state)]
      BY <2>3 DEF Hotplug
    <3> DEFINE new == queue \o Event(node, state)
    <3>2. /\ s \in Kinds /\ node \in Nodes /\ told' = told /\ skipped' = skipped
          /\ queue \in Seq(NodesOf(s) \X Actions)
          /\ state \in {"none", "valid", "invalid"}
      BY <1>2, <2>3 DEF Hotplug, States, MonitorTypes
    <3>3. \/ Event(node, state) = << >> /\ state # "none"
          \/ Event(node, state) = <<<<node, "add">>>> /\ state # "none"
          \/ Event(node, state) = <<<<node, "remove">>>>
      BY <3>1, Zenon DEF Event
    <3>4. ASSUME NEW a \in Actions
          PROVE  /\ queue \o <<<<node, a>>>> \in Seq(NodesOf(s) \X Actions)
                 /\ Len(queue \o <<<<node, a>>>>) = Len(queue) + 1
                 /\ (queue \o <<<<node, a>>>>)[Len(queue) + 1] = <<node, a>>
                 /\ \A k \in 1..Len(queue) :
                      (queue \o <<<<node, a>>>>)[k] = queue[k]
      <4>1. /\ <<<<node, a>>>> \in Seq(NodesOf(s) \X Actions)
            /\ Len(<<<<node, a>>>>) = 1 /\ <<<<node, a>>>>[1] = <<node, a>>
        BY <3>2
      <4>2. Len(queue) \in Nat
        BY <3>2, LenProperties
      <4> QED
        BY <3>2, <4>1, <4>2, ConcatProperties
    <3>5. /\ new \in Seq(NodesOf(s) \X Actions)
          /\ Len(queue) <= Len(new) /\ Len(queue) \in Nat /\ Len(new) \in Nat
          /\ \A k \in 1..Len(queue) : new[k] = queue[k]
          /\ state = "none" =>
               Len(new) = Len(queue) + 1 /\ new[Len(new)] = <<node, "remove">>
      <4>1. Len(queue) \in Nat
        BY <3>2, LenProperties
      <4>2. CASE Event(node, state) = << >> /\ state # "none"
        BY <3>2, <4>1, <4>2, ConcatEmptySeq
      <4>3. CASE Event(node, state) = <<<<node, "add">>>> /\ state # "none"
        BY <3>4, <4>1, <4>3
      <4>4. CASE Event(node, state) = <<<<node, "remove">>>>
        BY <3>4, <4>1, <4>4
      <4> QED
        BY <3>3, <4>2, <4>3, <4>4
    <3>6. /\ pending'[s] = new
          /\ \A other \in Kinds \ {s} : pending'[other] = pending[other]
          /\ device'[node] = state
          /\ \A other \in Nodes \ {node} : device'[other] = device[other]
      BY <3>1, <3>2 DEF MonitorTypes
    <3> HIDE DEF new
    <3>7. MonitorTypes'
      <4>1. new \in Seq(Events)
        <5>1. NodesOf(s) \X Actions \subseteq Events
          BY <1>2, <3>2
        <5> QED
          BY <3>5, <5>1, SeqMonotonic
      <4>2. pending' \in [Kinds -> Seq(Events)]
        BY <3>1, <3>2, <4>1 DEF MonitorTypes, new
      <4>3. \A t \in Kinds : pending'[t] \in Seq(NodesOf(t) \X Actions)
        BY <3>5, <3>6 DEF MonitorTypes
      <4>4. device' \in [Nodes -> {"none", "valid", "invalid"}]
        BY <3>1, <3>2 DEF MonitorTypes
      <4> QED
        BY <3>2, <4>2, <4>3, <4>4 DEF MonitorTypes
    <3>8. CameraAwaited'
      <4>1. CASE s = "CAMERA"
        <5>1. node = "CAMERA"
          BY <1>2, <4>1
        <5>2. ASSUME state = "none"
              PROVE  new # << >> /\ new[Len(new)][2] = "remove"
          BY <3>5, <5>2, EmptySeq
        <5> QED
          BY <3>2, <3>6, <4>1, <5>1, <5>2 DEF CameraAwaited
      <4>2. CASE s # "CAMERA"
        <5>1. node # "CAMERA"
          BY <1>1, <1>2, <3>2, <4>2 DEF NodesOf
        <5> QED
          BY <1>1, <1>2, <3>2, <3>6, <4>2, <5>1 DEF CameraAwaited
      <4> QED
        BY <4>1, <4>2
    <3>9. ASSUME NEW script \in Scripts \ skipped, device'[script] = "none",
                 told[script] = "add"
          PROVE  Waits("CUSTOM", script)'
      <4>1. CASE s = "CUSTOM" /\ node = script
        <5>1. Len(new) \in 1..Len(new) /\ new[Len(new)][1] = script
          BY <3>5, <3>6, <3>9, <4>1
        <5> QED
          BY <3>6, <4>1, <5>1 DEF Waits
      <4>2. CASE s = "CUSTOM" /\ node # script
        <5>1. PICK k \in 1..Len(queue) : queue[k][1] = script
          BY <1>2, <3>6, <3>9, <4>2 DEF ScriptAwaited, Waits
        <5>2. k \in 1..Len(new) /\ new[k][1] = script
          BY <3>5, <5>1
        <5> QED
          BY <3>6, <4>2, <5>2 DEF Waits
      <4>3. CASE s # "CUSTOM"
        <5>1. node # script
          BY <1>2, <3>2, <4>3 DEF NodesOf
        <5>2. Waits("CUSTOM", script)
          BY <1>2, <3>6, <3>9, <5>1 DEF ScriptAwaited
        <5> QED
          BY <1>1, <3>6, <4>3, <5>2 DEF Waits
      <4> QED
        BY <4>1, <4>2, <4>3
    <3> QED
      BY <3>2, <3>7, <3>8, <3>9 DEF ScriptAwaited
  <2> QED
    BY <2>1, <2>2, <2>3
    DEF Next, Steps, Calls, IsAvailable, Call, Begin, Find, FindNone, Take,
        Repeat, Miss, Fail, NextWay, Captured, Reply, vars
<1>5. MonitorInv => RemovalTold
  <2> SUFFICES ASSUME MonitorInv, NEW s \in {"CAMERA", "CUSTOM"},
                      NEW node \in NodesOf(s) \ skipped,
                      device[node] = "none", told[node] = "add"
               PROVE  \E k \in 1..Len(pending[s]) : pending[s][k][1] = node
    BY DEF RemovalTold
  <2>1. CASE s = "CUSTOM"
    BY <1>2, <2>1 DEF MonitorInv, ScriptAwaited, Waits
  <2>2. CASE s = "CAMERA"
    <3>1. node = "CAMERA" /\ pending[s] \in Seq(NodesOf(s) \X Actions)
      BY <1>1, <1>2, <2>2 DEF MonitorInv, MonitorTypes
    <3>2. pending[s] # << >>
      BY <2>2, <3>1 DEF MonitorInv, CameraAwaited
    <3>3. Len(pending[s]) \in Nat \ {0}
      BY <3>1, <3>2, EmptySeq, LenProperties
    <3>4. pending[s][1] \in NodesOf(s) \X Actions
      BY <3>1, <3>3, ElementOfSeq
    <3> QED
      BY <1>2, <2>2, <3>1, <3>3, <3>4
  <2> QED
    BY <2>1, <2>2
<1> QED
  BY <1>3, <1>4, <1>5, PTL DEF Spec

-----------------------------------------------------------------------------

(* The settings of a camera *)

Todos == Names \X (Controls \cup Axes) \X (Int \cup Areas)
Entries == Controls \X Int
IsSetting(step) ==
  /\ step[1] \in Names
  /\ step[2] \in Controls => step[3] \in Int

CameraTypes ==
  /\ value \in [Controls -> Int]
  /\ stored \in [Names -> Entries \cup {Absent}]
  /\ todo \in Seq(Todos) /\ \A k \in 1..Len(todo) : IsSetting(todo[k])
  /\ before \in [Controls -> Int]

\* The names of the entries of a control
EntriesOf(control) ==
  {name \in Names : stored[name] # Absent /\ stored[name][1] = control}

\* The entry of a control, if it has one, is its only one and holds the value
\* that the control had before; if it has none, the control has not changed,
\* or has been restored.
Kept(control) ==
  /\ \A n, m \in EntriesOf(control) : n = m
  /\ \A n \in EntriesOf(control) : stored[n][2] = before[control]
  /\ EntriesOf(control) = {} =>
       \/ value[control] = before[control]
       \/ phase \in {"restore", "ready"}
          /\ value[control] = Asked(control, before[control])

CameraInv ==
  /\ CameraTypes
  /\ phase = "ready" => stored = NoneStored /\ crop = NoCrop
  /\ \A control \in Controls \ (Flaky \cup lost) : Kept(control)

\* After a capture, each control that answers has its value back, unless its
\* entry was lost, whatever callers set, ioctls failed and the order in which
\* entries are restored (camera.h:169-174, camera.c:131).
THEOREM ControlsRestored == CameraSpec => []SettingsRestored
<1>1. Absent \notin Entries
  BY CameraAssumption DEF Entries
<1>2. CameraInit => CameraInv
  <2> SUFFICES ASSUME CameraInit PROVE CameraInv
    OBVIOUS
  <2>1. CameraTypes
    <3>1. value \in [Controls -> Int] /\ before = value
      BY CameraAssumption DEF CameraInit
    <3>2. stored \in [Names -> Entries \cup {Absent}]
      BY DEF CameraInit, NoneStored
    <3>3. todo \in Seq(Todos) /\ Len(todo) = 0
      BY EmptySeq DEF CameraInit
    <3> QED
      BY <3>1, <3>2, <3>3 DEF CameraTypes
  <2>2. \A control \in Controls : EntriesOf(control) = {}
    BY DEF CameraInit, EntriesOf, NoneStored
  <2> QED
    BY <2>1, <2>2 DEF CameraInit, CameraInv, Kept
<1>3. \* what an ioctl may make of a control
      ASSUME NEW key \in Controls, NEW v \in Int, value[key] \in Int,
             NEW o \in Outcomes(key, v)
      PROVE  /\ o.value \in Int
             /\ key \notin Flaky => o.value = Asked(key, v)
             /\ (key \notin Flaky /\ ~o.store) => o.value = value[key]
  <2>1. Asked(key, v) \in Int
    BY CameraAssumption DEF Asked
  <2>2. PICK new \in Int : /\ o = Write(key, new)
                           /\ key \notin Flaky => new = Asked(key, v)
    BY <1>3, <2>1 DEF Outcomes
  <2>3. o.value = new /\ o.store = (value[key] # new)
    BY <2>2 DEF Write
  <2> QED
    BY <2>2, <2>3
<1>4. CameraInv /\ [CameraNext]_camera_vars => CameraInv'
  <2> SUFFICES ASSUME CameraInv, [CameraNext]_camera_vars PROVE CameraInv'
    OBVIOUS
  <2>1. ASSUME NEW request \in Requests, Capture(request) PROVE CameraInv'
    <3> DEFINE defaults == [k \in 1..Len(DefaultOps) |->
                              <<DefaultOps[k], DefaultOps[k], -1>>]
               callers == [k \in 1..Len(request) |->
                             <<"v4l2_op", request[k][1], request[k][2]>>]
               Setting == {step \in Todos : IsSetting(step)}
    <3>1. defaults \in Seq(Setting)
      <4>1. DefaultOps \in Seq(Controls)
        BY CameraAssumption
      <4>2. \A k \in 1..Len(DefaultOps) : defaults[k] \in Setting
        BY <4>1, ElementOfSeq DEF Names, Todos, IsSetting
      <4> QED
        BY <4>1, <4>2, LenProperties, SeqDef
    <3>2. callers \in Seq(Setting)
      <4>1. request \in Seq((Controls \X Int) \cup (Axes \X Areas))
        BY CameraAssumption
      <4>2. \A k \in 1..Len(request) :
              request[k] \in (Controls \X Int) \cup (Axes \X Areas)
        BY <4>1, ElementOfSeq
      <4>3. \A k \in 1..Len(request) : callers[k] \in Setting
        BY <4>2, CameraAssumption DEF Names, Todos, IsSetting
      <4> QED
        BY <4>1, <4>3, LenProperties, SeqDef
    <3> HIDE DEF defaults, callers
    <3>3. todo' \in Seq(Setting)
      BY <2>1, <3>1, <3>2, ConcatProperties DEF Capture, defaults, callers
    <3>4. todo' \in Seq(Todos) /\ \A k \in 1..Len(todo') : IsSetting(todo'[k])
      <4>1. \A k \in 1..Len(todo') : todo'[k] \in Setting
        BY <3>3, ElementOfSeq
      <4> QED
        BY <3>3, <4>1, SeqMonotonic
    <3>5. phase = "ready" /\ phase' = "set" /\ before' = value
          /\ UNCHANGED <<value, stored, crop>>
      BY <2>1 DEF Capture
    <3>6. \A control \in Controls : EntriesOf(control)' = {}
      BY <3>5 DEF CameraInv, EntriesOf, NoneStored
    <3>7. CameraTypes'
      BY <3>4, <3>5 DEF CameraInv, CameraTypes
    <3> QED
      BY <3>5, <3>6, <3>7 DEF CameraInv, Kept
  <2>2. CASE SetNext
    <3> DEFINE name == Head(todo)[1]
               key  == Head(todo)[2]
               val  == Head(todo)[3]
    <3>1. /\ name \in Names /\ (key \in Controls => val \in Int)
          /\ todo' \in Seq(Todos) /\ \A k \in 1..Len(todo') : IsSetting(todo'[k])
      <4>1. todo # << >> /\ todo \in Seq(Todos) /\ todo' = Tail(todo)
            /\ \A k \in 1..Len(todo) : IsSetting(todo[k])
        BY <2>2 DEF SetNext, CameraInv, CameraTypes
      <4>2. /\ Len(todo) \in Nat \ {0} /\ Head(todo) = todo[1]
            /\ Tail(todo) \in Seq(Todos) /\ Len(Tail(todo)) = Len(todo) - 1
            /\ \A k \in 1..Len(Tail(todo)) : Tail(todo)[k] = todo[k + 1]
        BY <4>1, EmptySeq, HeadTailProperties
      <4>3. IsSetting(todo[1])
        BY <4>1, <4>2
      <4> QED
        BY <4>1, <4>2, <4>3 DEF IsSetting
    <3>2. phase = "set" /\ UNCHANGED <<phase, before>>
      BY <2>2 DEF SetNext
    <3> HIDE DEF name, key, val
    <3>3. CASE UNCHANGED <<value, stored, lost>>
      BY <3>1, <3>2, <3>3 DEF CameraInv, CameraTypes, Kept, EntriesOf
    <3>4. CASE key \in Controls /\ SetV4l2(name, key, val)
      <4>1. PICK o \in Outcomes(key, val) :
              /\ value' = [value EXCEPT ![key] = o.value]
              /\ stored' = IF o.store THEN Stored(name, key, o.value) ELSE stored
              /\ lost' = IF o.store THEN lost \cup Endangered(name, key) ELSE lost
        BY <3>4 DEF SetV4l2
      <4>2. /\ o.value \in Int
            /\ (key \notin Flaky /\ ~o.store) => o.value = value[key]
        BY <1>3, <3>1, <3>4 DEF CameraInv, CameraTypes
      <4>3. value' \in [Controls -> Int]
            /\ \A c \in Controls \ {key} : value'[c] = value[c]
        BY <4>1, <4>2 DEF CameraInv, CameraTypes
      <4>4. CASE ~o.store
        <5>1. UNCHANGED <<stored, lost>>
          BY <4>1, <4>4, Zenon
        <5>2. key \notin Flaky => value'[key] = value[key]
          BY <3>4, <4>1, <4>2, <4>4 DEF CameraInv, CameraTypes
        <5>3. CameraTypes'
          BY <3>1, <3>2, <4>3, <5>1 DEF CameraInv, CameraTypes
        <5> QED
          BY <3>2, <4>3, <5>1, <5>2, <5>3 DEF CameraInv, Kept, EntriesOf
      <4>5. CASE o.store
        <5> DEFINE entry == <<key, value[key]>>
        <5>1. /\ stored' = [stored EXCEPT ![name] = entry]
              /\ lost' = lost \cup Endangered(name, key)
          BY <4>1, <4>5, Zenon DEF Stored
        <5>2. entry \in Entries /\ entry # Absent /\ entry[1] = key
              /\ entry[2] = value[key]
          BY <1>1, <3>4 DEF Entries, CameraInv, CameraTypes
        <5> HIDE DEF entry
        <5>3. CameraTypes'
          BY <3>1, <3>2, <4>3, <5>1, <5>2 DEF CameraInv, CameraTypes
        <5>4. /\ stored'[name] = entry
              /\ \A n \in Names \ {name} : stored'[n] = stored[n]
          BY <3>1, <5>1 DEF CameraInv, CameraTypes
        <5>5. ASSUME NEW c \in Controls \ (Flaky \cup lost') PROVE Kept(c)'
          <6>1. c \notin lost /\ c \notin Endangered(name, key) /\ Kept(c)
            BY <5>1 DEF CameraInv
          <6>2. stored[name] = Absent \/ stored[name][1] # c
            BY <6>1 DEF Endangered
          <6>3. name \notin EntriesOf(c)
            BY <6>2 DEF EntriesOf
          <6>4. CASE c = key
            <7>1. EntriesOf(c) = {}
              BY <6>1, <6>4 DEF Endangered, EntriesOf
            <7>2. EntriesOf(c)' = {name}
              BY <3>1, <5>2, <5>4, <6>4, <7>1 DEF EntriesOf
            <7>3. value[c] = before[c]
              BY <3>2, <6>1, <7>1 DEF Kept
            <7> QED
              BY <3>2, <5>2, <5>4, <6>4, <7>2, <7>3 DEF Kept
          <6>5. CASE c # key
            <7>1. EntriesOf(c)' = EntriesOf(c)
              BY <5>2, <5>4, <6>3, <6>5 DEF EntriesOf
            <7>2. \A n \in EntriesOf(c) : stored'[n] = stored[n]
              BY <5>4, <6>3 DEF EntriesOf
            <7> QED
              BY <3>2, <4>3, <6>1, <6>5, <7>1, <7>2 DEF Kept
          <6> QED
            BY <6>4, <6>5
        <5> QED
          BY <3>2, <5>3, <5>5 DEF CameraInv
      <4> QED
        BY <4>4, <4>5
    <3> QED
      BY <2>2, <3>3, <3>4 DEF SetNext, name, key, val
  <2>3. CASE TakeFrames \/ Stop
    <3>1. /\ phase \in {"set", "frames"} /\ phase' \in {"frames", "restore"}
          /\ UNCHANGED <<value, stored, crop, todo, before, lost>>
      BY <2>3 DEF TakeFrames, Stop
    <3>2. CameraTypes'
      BY <3>1 DEF CameraInv, CameraTypes
    <3>3. \A control \in Controls : EntriesOf(control)' = EntriesOf(control)
      BY <3>1 DEF EntriesOf
    <3>4. ASSUME NEW control \in Controls, Kept(control) PROVE Kept(control)'
      BY <3>1, <3>3, <3>4 DEF Kept
    <3> QED
      BY <3>1, <3>2, <3>4 DEF CameraInv
  <2>4. ASSUME NEW name \in Names, Restore(name) PROVE CameraInv'
    <3> DEFINE key == stored[name][1]
               old == stored[name][2]
    <3>1. /\ phase = "restore" /\ stored[name] # Absent
          /\ stored' = [stored EXCEPT ![name] = Absent]
          /\ UNCHANGED <<todo, phase, before, lost, crop>>
      BY <2>4 DEF Restore
    <3>2. key \in Controls /\ old \in Int
      BY <3>1 DEF CameraInv, CameraTypes, Entries
    <3>3. PICK o \in Outcomes(key, old) : value' = [value EXCEPT ![key] = o.value]
      BY <2>4 DEF Restore
    <3> HIDE DEF key, old
    <3>4. /\ o.value \in Int
          /\ key \notin Flaky => o.value = Asked(key, old)
      BY <1>3, <3>2, <3>3 DEF CameraInv, CameraTypes
    <3>5. /\ value' \in [Controls -> Int] /\ value'[key] = o.value
          /\ \A c \in Controls \ {key} : value'[c] = value[c]
      BY <3>2, <3>3, <3>4 DEF CameraInv, CameraTypes
    <3>6. /\ stored'[name] = Absent
          /\ \A n \in Names \ {name} : stored'[n] = stored[n]
      BY <3>1 DEF CameraInv, CameraTypes
    <3>7. CameraTypes'
      BY <3>1, <3>5 DEF CameraInv, CameraTypes
    <3>8. ASSUME NEW c \in Controls \ (Flaky \cup lost) PROVE Kept(c)'
      <4>1. Kept(c)
        BY DEF CameraInv
      <4>2. EntriesOf(c)' = EntriesOf(c) \ {name}
        BY <3>6 DEF EntriesOf
      <4>3. name \in EntriesOf(c) <=> c = key
        BY <3>1 DEF EntriesOf, key
      <4>4. CASE c = key
        <5>1. EntriesOf(c)' = {} /\ old = before[c]
          BY <4>1, <4>2, <4>3, <4>4 DEF Kept, old
        <5>2. value'[c] = Asked(c, before[c])
          BY <3>4, <3>5, <4>4, <5>1
        <5> QED
          BY <3>1, <5>1, <5>2 DEF Kept, Asked
      <4>5. CASE c # key
        <5>1. EntriesOf(c)' = EntriesOf(c)
          BY <4>2, <4>3, <4>5
        <5>2. \A n \in EntriesOf(c) : stored'[n] = stored[n]
          BY <3>6, <4>3, <4>5 DEF EntriesOf
        <5> QED
          BY <3>1, <3>5, <4>1, <4>5, <5>1, <5>2 DEF Kept, Asked
      <4> QED
        BY <4>4, <4>5
    <3> QED
      BY <3>1, <3>7, <3>8 DEF CameraInv
  <2>5. CASE Restored
    BY <2>5 DEF Restored, CropAfter, CameraInv, CameraTypes, Kept, EntriesOf, Asked
  <2>6. CASE UNCHANGED camera_vars
    BY <2>6 DEF camera_vars, CameraInv, CameraTypes, Kept, EntriesOf, Asked
  <2> QED
    BY <2>1, <2>2, <2>3, <2>4, <2>5, <2>6 DEF CameraNext
<1>5. CameraInv => SettingsRestored
  <2> SUFFICES ASSUME CameraInv, phase = "ready" PROVE SettingsRestored
    BY DEF SettingsRestored
  <2>1. \A control \in Controls : EntriesOf(control) = {}
    BY DEF CameraInv, EntriesOf, NoneStored
  <2> QED
    BY <2>1 DEF CameraInv, Kept, SettingsRestored
<1> QED
  BY <1>2, <1>4, <1>5, PTL DEF CameraSpec
=============================================================================
