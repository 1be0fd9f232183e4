-------------------------- MODULE BacklightProofs --------------------------
(***************************************************************************)
(* Proofs about Backlight, for any screens, levels, targets and steps.     *)
(***************************************************************************)
EXTENDS Backlight, SequenceTheorems, TLAPS

Event == {"change", "add", "remove"}

\* No event of queue e from the i-th on is about plugging.
QuietFrom(e, i) == \A j \in i..Len(e) : e[j] = "change"

\* The last event about plugging tells whether a screen d with queue e is
\* plugged; if there is none, the map does.
Tells(e, d, known, there) ==
  /\ QuietFrom(e, 1) => (d \in known <=> d \in there)
  /\ \A i \in 1..Len(e) :
       e[i] # "change" /\ QuietFrom(e, i + 1) =>
         (e[i] = "add" <=> d \in there)

\* An event of queue e will refresh a screen that is known, or forget it.
Awaits(e) == \E i \in 1..Len(e) : e[i] # "add"

\* The cached brightness of an internal screen is its own, unless an event is
\* under way.
Cached ==
  alive => \A d \in bls \cap Internal :
             cached[d] = level[d] \/ Awaits(events[d])

\* What peers were told of a screen is the brightness that is cached.
Known(d) == IF told[d].signal THEN Level(d, told[d].value) ELSE told[d].value
Told == \A d \in bls \cap Internal : Known(d) = cached[d]

Inv ==
  /\ TypeOK
  /\ alive => \A d \in Devices : Tells(events[d], d, bls, plugged)
  /\ \A d \in Devices : Smoothing(d) => d \in bls
  /\ Cached /\ Told

\* Rounding: a higher percentage is no lower level, and the percentage of a
\* level leads back to it (sysfs.c:62-66).
LEMMA LevelLemma ==
  ASSUME NEW d \in Devices
  PROVE  /\ \A p \in Int : Level(d, p) \in Int
         /\ \A p, q \in Int : p <= q => Level(d, p) <= Level(d, q)
         /\ \A v \in Nat : Pct(d, v) \in Int /\ Level(d, Pct(d, v)) = v
         /\ Level(d, Full) = MaxOf[d]
<1> DEFINE M == MaxOf[d]
           unit == Full \div M
<1>1. M \in Nat \ {0} /\ Full \in Nat \ {0} /\ Full % M = 0
  BY DevicesAssumption
<1> HIDE DEF M
<1>2. unit \in Nat /\ Full = unit * M
  BY <1>1
<1> HIDE DEF unit
<1>3. ASSUME NEW a \in Int, NEW b \in Int, a <= b
      PROVE  /\ (a + Full) \div (2 * Full) \in Int
             /\ (a + Full) \div (2 * Full) <= (b + Full) \div (2 * Full)
  BY <1>1, <1>3
<1>4. ASSUME NEW k \in Int PROVE (2 * (k * Full) + Full) \div (2 * Full) = k
  BY <1>1
<1>5. ASSUME NEW p \in Int, NEW q \in Int
      PROVE  Level(d, p) \in Int /\ (p <= q => Level(d, p) <= Level(d, q))
  <2>1. 2 * p * M \in Int /\ 2 * q * M \in Int
    BY <1>1
  <2>2. p <= q => 2 * p * M <= 2 * q * M
    BY <1>1
  <2> QED
    BY <1>3, <2>1, <2>2 DEF Level, M
<1>6. ASSUME NEW v \in Nat
      PROVE  Pct(d, v) \in Int /\ Level(d, Pct(d, v)) = v
  <2>1. Pct(d, v) = v * unit
    BY DEF Pct, M, unit
  <2>2. 2 * (v * unit) * M = 2 * (v * (unit * M)) /\ v * unit \in Int
    BY <1>1, <1>2
  <2>3. 2 * Pct(d, v) * M = 2 * (v * Full)
    BY <1>2, <2>1, <2>2
  <2> QED
    BY <1>4, <2>1, <2>2, <2>3 DEF Level, M
<1>7. Level(d, Full) = M
  <2>1. 2 * Full * M = 2 * (M * Full)
    BY <1>1
  <2> QED
    BY <1>1, <1>4, <2>1 DEF Level, M
<1> QED
  BY <1>5, <1>6, <1>7 DEF M

\* The next percentage is a number; without a direction it lies between the
\* present one and the target (backlight2.c: next_backlight_pct).
LEMMA NextPctLemma ==
  ASSUME TypeOK, NEW v \in {-1, 0, 1}, NEW d \in Devices,
         NEW target \in Nat, NEW step \in Nat
  PROVE  LET next == NextPct(v, d, target, step)
         IN  /\ next \in Int /\ Remaining(v, d, target, step) \in Nat
             /\ v = 0 => \/ Get(d) <= next /\ next <= target
                         \/ Get(d) >= next /\ next >= target
<1>1. Get(d) \in Int
  <2>1. cached[d] \in Nat /\ level[d] \in Nat
    BY DEF TypeOK
  <2>2. Pct(d, cached[d]) \in Int /\ Pct(d, level[d]) \in Int
    BY <2>1, LevelLemma
  <2> QED
    BY <2>2 DEF Get
<1>2. Full \in Nat
  BY DevicesAssumption
<1>3. Aim(v, d, target) \in Nat /\ (v = 0 => Aim(v, d, target) = target)
  <2>1. v * target \in Int
    OBVIOUS
  <2>2. \A p \in Int : Sanitize(p) \in Nat
    BY <1>2 DEF Sanitize, Greatest, Least
  <2> QED
    BY <1>1, <2>1, <2>2 DEF Aim
<1>4. Stride(v, step) \in Nat
  BY DEF Stride
<1> QED
  BY <1>1, <1>3, <1>4 DEF NextPct, Remaining, Greatest, Least

\* An event that is queued, or merged with the last one, keeps what the queue
\* tells and awaits.
LEMMA EnqueueLemma ==
  ASSUME NEW e \in Seq(Event), NEW event \in Event,
         NEW d, NEW known, NEW there, NEW now
  PROVE  /\ Enqueue(e, event) \in Seq(Event)
         /\ Awaits(e) \/ event # "add" => Awaits(Enqueue(e, event))
         /\ /\ Tells(e, d, known, there)
            /\ event = "change" => (d \in now <=> d \in there)
            /\ event # "change" => (d \in now <=> event = "add")
            => Tells(Enqueue(e, event), d, known, now)
<1> DEFINE new == Append(e, event)
<1>1. /\ new \in Seq(Event) /\ Len(e) \in Nat
      /\ Len(new) = Len(e) + 1 /\ new[Len(e) + 1] = event
      /\ \A i \in 1..Len(e) : new[i] = e[i]
  BY LenProperties, AppendProperties
<1> HIDE DEF new
<1>2. Awaits(e) \/ event # "add" => Awaits(new)
  BY <1>1 DEF Awaits
<1>3. ASSUME Tells(e, d, known, there),
             event = "change" => (d \in now <=> d \in there),
             event # "change" => (d \in now <=> event = "add")
      PROVE  Tells(new, d, known, now)
  <2>1. CASE event = "change"
    <3>1. \A i \in 1..(Len(e) + 1) : QuietFrom(new, i) => QuietFrom(e, i)
      BY <1>1, <2>1 DEF QuietFrom
    <3> QED
      BY <1>1, <1>3, <2>1, <3>1 DEF Tells
  <2>2. CASE event # "change"
    <3>1. \A i \in 1..(Len(e) + 1) : ~QuietFrom(new, i)
      BY <1>1, <2>2 DEF QuietFrom
    <3> QED
      BY <1>1, <1>3, <2>2, <3>1 DEF Tells
  <2> QED
    BY <2>1, <2>2
<1>4. CASE Enqueue(e, event) = new
  BY <1>1, <1>2, <1>3, <1>4
<1>5. CASE Enqueue(e, event) = e /\ e # << >> /\ event = "change"
           /\ e[Len(e)] = event
  <2>1. Len(e) \in 1..Len(e)
    BY <1>1, <1>5, EmptySeq
  <2>2. Awaits(e)
    BY <1>5, <2>1 DEF Awaits
  <2> QED
    BY <1>5, <2>2 DEF Tells
<1> QED
  BY <1>4, <1>5 DEF Enqueue, new

\* Handling the oldest event keeps what the rest tells and awaits.
LEMMA HandledLemma ==
  ASSUME NEW e \in Seq(Event), e # << >>
  PROVE  /\ Head(e) \in Event /\ Tail(e) \in Seq(Event)
         /\ Awaits(e) /\ Head(e) = "add" => Awaits(Tail(e))
         /\ \A d, known, there, now :
              /\ Tells(e, d, known, there)
              /\ Head(e) = "change" => (d \in now <=> d \in known)
              /\ Head(e) # "change" => (d \in now <=> Head(e) = "add")
              => Tells(Tail(e), d, now, there)
<1> DEFINE rest == Tail(e)
<1>1. /\ Len(e) \in Nat \ {0} /\ Len(rest) = Len(e) - 1 /\ Head(e) = e[1]
      /\ rest \in Seq(Event) /\ Head(e) \in Event
      /\ \A i \in 1..Len(rest) : rest[i] = e[i + 1]
  <2>1. Len(e) \in Nat \ {0}
    BY EmptySeq
  <2> QED
    BY <2>1, HeadTailProperties
<1> HIDE DEF rest
<1>2. Awaits(e) /\ Head(e) = "add" => Awaits(rest)
  <2> SUFFICES ASSUME NEW i \in 1..Len(e), e[i] # "add", e[1] = "add"
               PROVE  Awaits(rest)
    BY <1>1 DEF Awaits
  <2>1. i - 1 \in 1..Len(rest) /\ (i - 1) + 1 = i
    BY <1>1
  <2>2. rest[i - 1] = e[i]
    BY <1>1, <2>1
  <2> QED
    BY <2>1, <2>2 DEF Awaits
<1>3. \A i \in 1..(Len(rest) + 1) : QuietFrom(rest, i) => QuietFrom(e, i + 1)
  <2> TAKE i \in 1..(Len(rest) + 1)
  <2> HAVE QuietFrom(rest, i)
  <2> SUFFICES ASSUME NEW j \in (i + 1)..Len(e) PROVE e[j] = "change"
    BY DEF QuietFrom
  <2>1. j - 1 \in i..Len(rest) /\ j - 1 \in 1..Len(rest) /\ (j - 1) + 1 = j
    BY <1>1
  <2> QED
    BY <1>1, <2>1 DEF QuietFrom
<1>4. ASSUME NEW d, NEW known, NEW there, NEW now,
             Tells(e, d, known, there),
             Head(e) = "change" => (d \in now <=> d \in known),
             Head(e) # "change" => (d \in now <=> Head(e) = "add")
      PROVE  Tells(rest, d, now, there)
  <2>1. QuietFrom(rest, 1) => (d \in now <=> d \in there)
    <3> HAVE QuietFrom(rest, 1)
    <3>1. QuietFrom(e, 2)
      BY <1>1, <1>3
    <3>2. CASE Head(e) = "change"
      <4>1. QuietFrom(e, 1)
        BY <1>1, <3>1, <3>2 DEF QuietFrom
      <4> QED
        BY <1>4, <3>2, <4>1 DEF Tells
    <3>3. CASE Head(e) # "change"
      BY <1>1, <1>4, <3>1, <3>3 DEF Tells
    <3> QED
      BY <3>2, <3>3
  <2>2. ASSUME NEW i \in 1..Len(rest), rest[i] # "change",
               QuietFrom(rest, i + 1)
        PROVE  rest[i] = "add" <=> d \in there
    <3>1. /\ i + 1 \in 1..Len(e) /\ rest[i] = e[i + 1]
          /\ i + 1 \in 1..(Len(rest) + 1)
      BY <1>1
    <3>2. QuietFrom(e, (i + 1) + 1)
      BY <1>3, <2>2, <3>1
    <3> QED
      BY <1>4, <2>2, <3>1, <3>2 DEF Tells
  <2> QED
    BY <2>1, <2>2 DEF Tells
<1> QED
  BY <1>1, <1>2, <1>4 DEF rest

\* Setting screens keeps the invariant: the value that is written is cached
\* and told, and the kernel's event changes nothing.
LEMMA ApplyLemma ==
  ASSUME Inv, NEW S \in SUBSET Devices, NEW pct,
         \A d \in S : pct[d] \in Int /\ CanSet(d, pct[d]),
         Apply(S, pct),
         UNCHANGED <<alive, plugged, bls>>
  PROVE  /\ level' \in [Devices -> Nat]
         /\ \A d \in Devices : level'[d] \in Levels(d)
         /\ cached' \in [Devices -> Nat] /\ told' \in [Devices -> [signal : BOOLEAN, value : Int]]
         /\ events' \in [Devices -> Seq(Event)]
         /\ alive' => \A d \in Devices : Tells(events'[d], d, bls', plugged')
         /\ Cached' /\ Told'
<1> USE DEF Inv, TypeOK, Event
<1>1. \A d \in Devices : Levels(d) \subseteq Nat
  BY DEF Levels
<1>2. \A d \in S : Level(d, pct[d]) \in Levels(d)
  BY DEF CanSet
<1>3. /\ level' \in [Devices -> Nat]
      /\ \A d \in Devices : level'[d] \in Levels(d)
      /\ cached' \in [Devices -> Nat] /\ told' \in [Devices -> [signal : BOOLEAN, value : Int]]
  <2>1. \A d \in S : Signalled(pct[d]) \in [signal : BOOLEAN, value : Int]
    BY DEF Signalled
  <2> QED
    BY <1>1, <1>2, <2>1 DEF Apply
<1>4. ASSUME NEW d \in Devices
      PROVE  /\ events'[d] \in {events[d], Enqueue(events[d], "change")}
             /\ events'[d] \in Seq(Event)
             /\ Awaits(events[d]) => Awaits(events'[d])
             /\ alive' => Tells(events'[d], d, bls', plugged')
  <2>1. events'[d] \in {events[d], Enqueue(events[d], "change")}
    BY DEF Apply
  <2>2. events[d] \in Seq(Event) /\ "change" \in Event
    BY DEF Event
  <2>3. /\ Enqueue(events[d], "change") \in Seq(Event)
        /\ Awaits(events[d]) => Awaits(Enqueue(events[d], "change"))
        /\ Tells(events[d], d, bls, plugged) =>
             Tells(Enqueue(events[d], "change"), d, bls, plugged)
    BY <2>2, EnqueueLemma
  <2> QED
    BY <2>1, <2>2, <2>3
<1>5. events' \in [Devices -> Seq(Event)]
  <2>1. events' = [d \in Devices |-> events'[d]]
    BY DEF Apply
  <2> QED
    BY <1>4, <2>1
<1>6. Cached'
  <2> SUFFICES ASSUME alive', NEW d \in bls' \cap Internal
               PROVE  cached'[d] = level'[d] \/ Awaits(events'[d])
    BY DEF Cached
  <2>1. d \in Devices /\ d \in bls /\ alive
    OBVIOUS
  <2>2. CASE d \in S
    BY <2>1, <2>2 DEF Apply
  <2>3. CASE d \notin S
    <3>1. cached'[d] = cached[d] /\ level'[d] = level[d]
      BY <2>1, <2>3 DEF Apply
    <3> QED
      BY <1>4, <2>1, <3>1 DEF Cached
  <2> QED
    BY <2>2, <2>3
<1>7. Told'
  <2> SUFFICES ASSUME NEW d \in bls \cap Internal
               PROVE  Known(d)' = cached'[d]
    BY DEF Told
  <2>1. CASE d \in S
    BY <2>1 DEF Apply, Known, Signalled
  <2>2. CASE d \notin S
    BY <2>2 DEF Apply, Known, Told
  <2> QED
    BY <2>1, <2>2
<1> QED
  BY <1>3, <1>4, <1>5, <1>6, <1>7

\* Every step of peers, users, the kernel and the daemon keeps it.
LEMMA BacklightInv == Spec => []Inv
<1> USE DEF Inv, TypeOK, Event
<1>1. Init => Inv
  <2> SUFFICES ASSUME Init PROVE Inv
    OBVIOUS
  <2>1. MaxOf \in [Devices -> Nat \ {0}] /\ Full \in Nat
    BY DevicesAssumption
  <2>2. TypeOK
    <3>1. \A d \in Devices : events[d] = << >> /\ << >> \in Seq(Event)
      BY EmptySeq DEF Init
    <3> QED
      BY <2>1, <3>1 DEF Init, Levels, Nothing, Unsignalled
  <2>3. \A d \in Devices : Tells(events[d], d, bls, plugged)
    <3> SUFFICES ASSUME NEW d \in Devices
                 PROVE  Tells(events[d], d, bls, plugged)
      OBVIOUS
    <3>1. events[d] = << >> /\ 1..Len(events[d]) = {}
      BY DEF Init
    <3> QED
      BY <3>1 DEF Init, Tells
  <2>4. Told
    BY <2>2 DEF Init, Told, Known, Unsignalled
  <2> QED
    BY <2>2, <2>3, <2>4 DEF Init, Cached, Smoothing
<1>2. Inv /\ [Next]_vars => Inv'
  <2> SUFFICES ASSUME Inv, [Next]_vars PROVE Inv'
    OBVIOUS
  <2>1. CASE Peers
    <3>1. ASSUME NEW direction \in {-1, 0, 1}, DeniedCall(direction)
          PROVE  Inv'
      BY <3>1 DEF DeniedCall, Cached, Told, Known, Smoothing
    <3>2. ASSUME NEW direction \in {-1, 0, 1},
                 NEW target \in Targets, NEW step \in Steps,
                 NEW D \in {bls} \cup {{d} : d \in bls},
                 Call(direction, D, target, step)
          PROVE  Inv'
      <4> DEFINE v == IF direction = 0 THEN verse ELSE direction
                 needs_smooth == step > 0 /\ target > 0
                 stride == IF needs_smooth THEN step ELSE 0
                 pct == [d \in D |-> NextPct(v, d, target, stride)]
      <4>1. /\ D \subseteq Devices /\ D \subseteq bls
            /\ v \in {-1, 0, 1} /\ target \in Nat /\ step \in Nat
            /\ stride \in Nat
        BY DevicesAssumption
      <4>2. \A d \in D : /\ pct[d] \in Int
                         /\ Remaining(v, d, target, step) \in Nat
        BY <4>1, NextPctLemma
      <4>3. UNCHANGED <<alive, plugged, bls>> /\ verse' = 0
        BY <3>2 DEF Call
      <4>4. PICK done \in SUBSET D, failed \in SUBSET D :
              /\ \A d \in done : CanSet(d, pct[d])
              /\ Apply(done, pct)
              /\ smooth' = [d \in Devices |->
                   IF d \in done /\ needs_smooth
                     THEN [target |-> Remaining(v, d, target, step),
                           step |-> step]
                   ELSE IF d \in done \cup failed THEN Nothing
                   ELSE smooth[d]]
        BY <3>2 DEF Call, SetBacklight
      <4> HIDE DEF v, needs_smooth, stride, pct
      <4>5. /\ level' \in [Devices -> Nat]
            /\ \A d \in Devices : level'[d] \in Levels(d)
            /\ cached' \in [Devices -> Nat] /\ told' \in [Devices -> [signal : BOOLEAN, value : Int]]
            /\ events' \in [Devices -> Seq(Event)]
            /\ alive' => \A d \in Devices :
                           Tells(events'[d], d, bls', plugged')
            /\ Cached' /\ Told'
        BY <4>1, <4>2, <4>3, <4>4, ApplyLemma
      <4>6. /\ smooth' \in [Devices -> [target : Nat, step : Nat]]
            /\ \A d \in Devices : Smoothing(d)' => d \in bls'
        BY <4>1, <4>2, <4>3, <4>4 DEF Smoothing, Nothing
      <4> QED
        BY <4>3, <4>5, <4>6
    <3> QED
      BY <2>1, <3>1, <3>2 DEF Peers
  <2>2. ASSUME NEW d \in Devices, SmoothTick(d) PROVE Inv'
    <3> DEFINE next == NextPct(verse, d, smooth[d].target, smooth[d].step)
               left == Remaining(verse, d, smooth[d].target, smooth[d].step)
    <3>1. /\ UNCHANGED <<alive, plugged, bls, verse>> /\ Smoothing(d)
          /\ \/ /\ CanSet(d, next) /\ Apply({d}, [e \in {d} |-> next])
                /\ smooth' = [smooth EXCEPT ![d] =
                     IF left = 0 THEN Nothing
                     ELSE [target |-> left, step |-> smooth[d].step]]
             \/ /\ smooth' = [smooth EXCEPT ![d] = Nothing]
                /\ UNCHANGED <<level, cached, told, events>>
      BY <2>2 DEF SmoothTick
    <3>2. smooth[d].target \in Nat /\ smooth[d].step \in Nat
      OBVIOUS
    <3>3. next \in Int /\ left \in Nat
      BY <3>2, NextPctLemma
    <3> HIDE DEF next, left
    <3>4. /\ smooth' \in [Devices -> [target : Nat, step : Nat]]
          /\ \A e \in Devices : Smoothing(e)' => e \in bls'
      <4>1. \E r \in [target : Nat, step : Nat] :
              smooth' = [smooth EXCEPT ![d] = r]
        <5>1. /\ Nothing \in [target : Nat, step : Nat]
              /\ [target |-> left, step |-> smooth[d].step]
                   \in [target : Nat, step : Nat]
          BY <3>2, <3>3 DEF Nothing
        <5> QED
          BY <3>1, <5>1
      <4>2. PICK r \in [target : Nat, step : Nat] :
              smooth' = [smooth EXCEPT ![d] = r]
        BY <4>1
      <4>3. \A e \in Devices \ {d} : smooth'[e] = smooth[e]
        BY <4>2
      <4>4. smooth' \in [Devices -> [target : Nat, step : Nat]]
        BY <4>2
      <4>5. bls' = bls /\ d \in bls
        BY <3>1
      <4> QED
        BY <4>3, <4>4, <4>5 DEF Smoothing
    <3>5. CASE CanSet(d, next) /\ Apply({d}, [e \in {d} |-> next])
      <4>1. /\ {d} \in SUBSET Devices
            /\ \A e \in {d} : /\ [f \in {d} |-> next][e] \in Int
                              /\ CanSet(e, [f \in {d} |-> next][e])
        BY <3>3, <3>5
      <4>2. /\ level' \in [Devices -> Nat]
            /\ \A e \in Devices : level'[e] \in Levels(e)
            /\ cached' \in [Devices -> Nat] /\ told' \in [Devices -> [signal : BOOLEAN, value : Int]]
            /\ events' \in [Devices -> Seq(Event)]
            /\ alive' => \A e \in Devices :
                           Tells(events'[e], e, bls', plugged')
            /\ Cached' /\ Told'
        BY <3>1, <3>5, <4>1, ApplyLemma
      <4> QED
        BY <3>1, <3>4, <4>2
    <3>6. CASE UNCHANGED <<level, cached, told, events>>
      BY <3>1, <3>4, <3>6 DEF Cached, Told, Known
    <3> QED
      BY <3>1, <3>5, <3>6
  <2>3. ASSUME NEW d \in Devices, UdevEvent(d) PROVE Inv'
    <3> DEFINE e == events[d]
    <3>1. e \in Seq(Event) /\ e # << >> /\ alive
      BY <2>3 DEF UdevEvent
    <3>2. /\ Head(e) \in Event /\ Tail(e) \in Seq(Event)
          /\ Awaits(e) /\ Head(e) = "add" => Awaits(Tail(e))
      BY <3>1, HandledLemma
    <3>3. /\ events' = [events EXCEPT ![d] = Tail(e)]
          /\ UNCHANGED <<plugged, level, verse>>
      BY <2>3 DEF UdevEvent
    <3>4. /\ alive' \in BOOLEAN /\ bls' \subseteq Devices
          /\ cached' \in [Devices -> Nat] /\ told' \in [Devices -> [signal : BOOLEAN, value : Int]]
          /\ smooth' \in [Devices -> [target : Nat, step : Nat]]
          /\ \A other \in Devices \ {d} :
               /\ other \in bls' <=> other \in bls
               /\ cached'[other] = cached[other] /\ told'[other] = told[other]
               /\ smooth'[other] = smooth[other]
      <4>1. /\ level[d] \in Nat
            /\ Signalled(Pct(d, level[d])) \in [signal : BOOLEAN, value : Int]
            /\ Unsignalled(level[d]) \in [signal : BOOLEAN, value : Int]
        BY LevelLemma DEF Signalled, Unsignalled
      <4>2. Nothing \in [target : Nat, step : Nat]
        BY DEF Nothing
      <4>3. CASE Added(d)
        BY <3>1, <4>1, <4>3 DEF Added
      <4>4. CASE Changed(d)
        BY <3>1, <4>1, <4>4 DEF Changed, Emit
      <4>5. CASE Removed(d)
        BY <4>2, <4>5 DEF Removed
      <4> QED
        BY <2>3, <4>3, <4>4, <4>5 DEF UdevEvent
    <3>5. alive' => Tells(Tail(e), d, bls', plugged)
      <4> HAVE alive'
      <4>1. Head(e) = "change" => (d \in bls' <=> d \in bls)
        BY <2>3 DEF UdevEvent, Changed
      <4>2. Head(e) # "change" => (d \in bls' <=> Head(e) = "add")
        BY <2>3, <3>2 DEF UdevEvent, Added, Removed, Event
      <4>3. Tells(e, d, bls, plugged)
        BY <3>1
      <4> HIDE DEF e
      <4> QED
        BY <3>1, <4>1, <4>2, <4>3, HandledLemma
    <3>6. d \in bls' \cap Internal => Known(d)' = cached'[d]
      <4> HAVE d \in bls' \cap Internal
      <4>1. Level(d, Pct(d, level[d])) = level[d]
        BY LevelLemma
      <4>2. d \in bls => Known(d) = cached[d]
        BY DEF Told
      <4>3. CASE Added(d)
        BY <4>2, <4>3 DEF Added, Known, Unsignalled
      <4>4. CASE Changed(d)
        BY <4>1, <4>2, <4>4 DEF Changed, Emit, Known, Signalled
      <4>5. CASE Removed(d)
        BY <4>2, <4>5 DEF Removed, Known
      <4> QED
        BY <2>3, <4>3, <4>4, <4>5 DEF UdevEvent
    <3>7. Smoothing(d)' => d \in bls'
      BY <2>3 DEF UdevEvent, Added, Changed, Removed, Smoothing
    <3>8. alive' /\ d \in bls' \cap Internal =>
            cached'[d] = level[d] \/ Awaits(Tail(e))
      <4> HAVE alive' /\ d \in bls' \cap Internal
      <4>1. d \in bls => cached[d] = level[d] \/ Awaits(e)
        BY <3>1 DEF Cached
      <4> QED
        BY <2>3, <3>2, <4>1 DEF UdevEvent, Added, Changed, Removed
    <3> HIDE DEF e
    <3>9. TypeOK'
      BY <3>2, <3>3, <3>4
    <3>10. Cached'
      BY <3>1, <3>3, <3>4, <3>8 DEF Cached
    <3>11. Told'
      BY <3>4, <3>6 DEF Told, Known
    <3>12. \A other \in Devices : Smoothing(other)' => other \in bls'
      BY <3>4, <3>7 DEF Smoothing
    <3>13. alive' => \A other \in Devices :
                      Tells(events[other], other, bls, plugged)'
      BY <3>1, <3>3, <3>4, <3>5 DEF Tells
    <3> QED
      BY <3>9, <3>10, <3>11, <3>12, <3>13
  <2>4. ASSUME NEW d \in Devices, Keys(d) PROVE Inv'
    <3>1. PICK v \in Levels(d) : level' = [level EXCEPT ![d] = v]
      BY <2>4 DEF Keys
    <3>2. /\ UNCHANGED <<alive, plugged, bls, cached, smooth, verse, told>>
          /\ events' = IF d \in Internal
                         THEN [events EXCEPT
                                 ![d] = Enqueue(events[d], "change")]
                         ELSE events
      BY <2>4 DEF Keys
    <3>3. events[d] \in Seq(Event) /\ "change" \in Event
      BY DEF Event
    <3>4. /\ Enqueue(events[d], "change") \in Seq(Event)
          /\ Awaits(Enqueue(events[d], "change"))
          /\ Tells(events[d], d, bls, plugged) =>
               Tells(Enqueue(events[d], "change"), d, bls, plugged)
      BY <3>3, EnqueueLemma
    <3>5. /\ level' \in [Devices -> Nat]
          /\ \A e \in Devices : level'[e] \in Levels(e)
      BY <3>1 DEF Levels
    <3>6. events' \in [Devices -> Seq(Event)]
      BY <3>2, <3>4
    <3>7. Cached'
      BY <3>1, <3>2, <3>4 DEF Cached
    <3>8. alive' => \A e \in Devices : Tells(events'[e], e, bls', plugged')
      BY <3>2, <3>4
    <3> QED
      BY <3>2, <3>5, <3>6, <3>7, <3>8 DEF Told, Known, Smoothing
  <2>5. ASSUME NEW d \in Devices, Hotplug(d) PROVE Inv'
    <3> DEFINE event == IF d \in plugged THEN "remove" ELSE "add"
    <3>1. /\ alive
          /\ UNCHANGED <<alive, level, bls, cached, smooth, verse, told>>
          /\ events' = [events EXCEPT ![d] = Enqueue(events[d], event)]
          /\ plugged' \subseteq Devices
          /\ d \in plugged' <=> event = "add"
          /\ \A e \in Devices \ {d} : e \in plugged' <=> e \in plugged
      BY <2>5 DEF Hotplug
    <3>2. events[d] \in Seq(Event) /\ event \in Event /\ event # "change"
      BY DEF Event
    <3> HIDE DEF event
    <3>3. /\ Enqueue(events[d], event) \in Seq(Event)
          /\ Awaits(events[d]) => Awaits(Enqueue(events[d], event))
          /\ Tells(events[d], d, bls, plugged) =>
               Tells(Enqueue(events[d], event), d, bls, plugged')
      BY <3>1, <3>2, EnqueueLemma
    <3>4. events' \in [Devices -> Seq(Event)]
      BY <3>1, <3>3
    <3>5. Cached'
      BY <3>1, <3>3 DEF Cached
    <3>6. alive' => \A e \in Devices : Tells(events'[e], e, bls', plugged')
      BY <3>1, <3>3 DEF Tells
    <3> QED
      BY <3>1, <3>4, <3>5, <3>6 DEF Told, Known, Smoothing
  <2>6. CASE UNCHANGED vars
    BY <2>6 DEF vars, Cached, Told, Known, Smoothing
  <2> QED
    BY <2>1, <2>2, <2>3, <2>4, <2>5, <2>6 DEF Next, Daemon
<1> QED
  BY <1>1, <1>2, PTL DEF Spec

\* Once its events are handled, what is cached of a screen is its brightness,
\* the last Changed signal since it was added told that brightness (a screen
\* without such a signal still has the one it was added with), the screens that are known are those that are
\* plugged, and only they have timers: whatever calls, keys, hotplugs and
\* timers interleave, with queues of any length (sysfs.c:43-47, 90-119).
THEOREM ScreensInSync ==
  Spec => [](TypeOK /\ CacheInSync /\ SignalInSync /\ MapInSync)
<1>1. Inv => TypeOK /\ CacheInSync /\ SignalInSync /\ MapInSync
  <2> SUFFICES ASSUME Inv
               PROVE  TypeOK /\ CacheInSync /\ SignalInSync /\ MapInSync
    OBVIOUS
  <2> USE DEF Inv, TypeOK, Event
  <2>1. ASSUME NEW d \in Devices, events[d] = << >>
        PROVE  ~Awaits(events[d]) /\ QuietFrom(events[d], 1)
    <3>1. 1..Len(events[d]) = {}
      BY <2>1
    <3> QED
      BY <3>1 DEF Awaits, QuietFrom
  <2>2. CacheInSync
    BY <2>1 DEF CacheInSync, Cached
  <2>3. SignalInSync
    BY <2>2 DEF CacheInSync, SignalInSync, Told, Known
  <2>4. MapInSync
    BY <2>1 DEF MapInSync, Tells
  <2> QED
    BY <2>2, <2>3, <2>4
<1> QED
  BY <1>1, BacklightInv, PTL

\* The timer of a screen whose events are handled moves it between its level
\* and the target, never beyond the target nor away from it, although the step
\* is computed from what is cached (backlight2.c: set_backlight_value).
THEOREM Approaches == Spec => TowardTarget
<1> DEFINE Toward ==
      \A d \in Devices :
        SmoothTick(d) /\ verse = 0 /\ events[d] = << >> =>
          LET target == Level(d, smooth[d].target)
          IN  \/ level[d] <= level'[d] /\ level'[d] <= target
              \/ level[d] >= level'[d] /\ level'[d] >= target
<1>1. Inv /\ [Next]_vars => [Toward]_vars
  <2> SUFFICES ASSUME Inv, NEW d \in Devices,
                      SmoothTick(d), verse = 0, events[d] = << >>
               PROVE  LET target == Level(d, smooth[d].target)
                      IN  \/ level[d] <= level'[d] /\ level'[d] <= target
                          \/ level[d] >= level'[d] /\ level'[d] >= target
    OBVIOUS
  <2> DEFINE aim == smooth[d].target
             next == NextPct(0, d, aim, smooth[d].step)
  <2>1. /\ aim \in Nat /\ smooth[d].step \in Nat /\ level[d] \in Nat
        /\ TypeOK
    BY DEF Inv, TypeOK
  <2>2. /\ next \in Int
        /\ \/ Get(d) <= next /\ next <= aim
           \/ Get(d) >= next /\ next >= aim
    BY <2>1, NextPctLemma
  <2>3. Get(d) = Pct(d, level[d])
    <3>1. CASE d \in Internal
      <4>1. d \in bls /\ alive
        BY DEF SmoothTick, Inv
      <4>2. 1..Len(events[d]) = {}
        OBVIOUS
      <4> QED
        BY <3>1, <4>1, <4>2 DEF Inv, Cached, Awaits, Get
    <3>2. CASE d \notin Internal
      BY <3>2 DEF Get
    <3> QED
      BY <3>1, <3>2
  <2>4. CASE CanSet(d, next) /\ Apply({d}, [e \in {d} |-> next])
    <3>1. level'[d] = Level(d, next)
      BY <2>4 DEF Apply
    <3>2. /\ Get(d) \in Int /\ Level(d, Get(d)) = level[d]
          /\ Level(d, aim) \in Int /\ Level(d, next) \in Int
      BY <2>1, <2>2, <2>3, LevelLemma
    <3>3. /\ Get(d) <= next => Level(d, Get(d)) <= Level(d, next)
          /\ Get(d) >= next => Level(d, Get(d)) >= Level(d, next)
          /\ next <= aim => Level(d, next) <= Level(d, aim)
          /\ next >= aim => Level(d, next) >= Level(d, aim)
      BY <2>1, <2>2, <3>2, LevelLemma
    <3> HIDE DEF aim, next
    <3> QED
      BY <2>2, <3>1, <3>2, <3>3 DEF aim
  <2>5. CASE UNCHANGED level
    <3>1. Level(d, aim) \in Int
      BY <2>1, LevelLemma
    <3> QED
      BY <2>1, <2>5, <3>1
  <2> QED
    BY <2>4, <2>5 DEF SmoothTick
<1> QED
  BY <1>1, BacklightInv, PTL DEF Spec, TowardTarget
=============================================================================
