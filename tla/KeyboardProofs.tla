--------------------------- MODULE KeyboardProofs ---------------------------
(***************************************************************************)
(* Proofs about Keyboard, for any keyboards, drivers and requests.         *)
(***************************************************************************)
EXTENDS Keyboard, SequenceTheorems, TLAPS

Event == {"add", "remove", "change"}

Types ==
  /\ alive \in BOOLEAN /\ monitoring \in BOOLEAN
  /\ plugged \subseteq Keyboards /\ kbds \subseteq Keyboards
  /\ missed \subseteq Keyboards
  /\ events \in [Keyboards -> Seq(Event)]

\* No event of queue e from the i-th on is about plugging.
QuietFrom(e, i) == \A j \in i..Len(e) : e[j] = "change"

\* The last event about plugging tells whether a keyboard k with queue e is
\* plugged; if there is none, the map does.
Tells(e, k, known, there) ==
  /\ QuietFrom(e, 1) => (k \in known <=> k \in there)
  /\ \A i \in 1..Len(e) :
       e[i] # "change" /\ QuietFrom(e, i + 1) =>
         (e[i] = "add" <=> k \in there)

Inv ==
  /\ Types
  /\ objects = kbds
  /\ ~monitoring => \A k \in Keyboards : events[k] = << >>
  /\ alive => \A k \in Keyboards \ missed :
                Tells(events[k], k, kbds, plugged)

\* Every step of peers, users, the kernel and the daemon keeps it.
LEMMA KeyboardInv == Spec => []Inv
<1> USE DEF Event
<1>1. Init => Inv
  <2> SUFFICES ASSUME Init PROVE Inv
    OBVIOUS
  <2>1. \A k \in Keyboards : events[k] = << >>
    BY DEF Init
  <2>2. events \in [Keyboards -> Seq(Event)]
    BY <2>1, EmptySeq DEF Init
  <2>3. ASSUME NEW k \in Keyboards
        PROVE  Tells(events[k], k, kbds, plugged)
    <3>1. events[k] = << >> /\ kbds = plugged
      BY <2>1 DEF Init
    <3>2. 1..Len(events[k]) = {}
      BY <3>1
    <3> QED
      BY <3>1, <3>2 DEF Tells
  <2> QED
    BY <2>1, <2>2, <2>3 DEF Init, Inv, Types
<1>2. \* what one more event does
      ASSUME NEW e \in Seq(Event), NEW k, NEW known, NEW there, NEW now,
             NEW event \in Event, Tells(e, k, known, there),
             event = "change" => (k \in now <=> k \in there),
             event # "change" => (k \in now <=> event = "add")
      PROVE  Tells(Append(e, event), k, known, now)
  <2> DEFINE new == Append(e, event)
  <2> SUFFICES Tells(new, k, known, now)
    OBVIOUS
  <2>1. /\ Len(e) \in Nat /\ Len(new) = Len(e) + 1 /\ new[Len(e) + 1] = event
        /\ \A i \in 1..Len(e) : new[i] = e[i]
    BY LenProperties, AppendProperties
  <2> HIDE DEF new
  <2>2. CASE event = "change"
    <3>1. \A i \in 1..(Len(e) + 1) : QuietFrom(new, i) => QuietFrom(e, i)
      BY <2>1, <2>2 DEF QuietFrom
    <3> QED
      BY <1>2, <2>1, <2>2, <3>1 DEF Tells
  <2>3. CASE event # "change"
    <3>1. \A i \in 1..(Len(e) + 1) : ~QuietFrom(new, i)
      BY <2>1, <2>3 DEF QuietFrom
    <3> QED
      BY <1>2, <2>1, <2>3, <3>1 DEF Tells
  <2> QED
    BY <2>2, <2>3
<1>3. \* what handling an event does
      ASSUME NEW e \in Seq(Event), e # << >>,
             NEW k, NEW known, NEW there, NEW now,
             Tells(e, k, known, there),
             Head(e) = "change" => (k \in now <=> k \in known),
             Head(e) # "change" => (k \in now <=> Head(e) = "add")
      PROVE  Tells(Tail(e), k, now, there)
  <2> DEFINE rest == Tail(e)
  <2> SUFFICES Tells(rest, k, now, there)
    OBVIOUS
  <2>1. /\ Len(e) \in Nat \ {0} /\ Len(rest) = Len(e) - 1 /\ Head(e) = e[1]
        /\ \A i \in 1..Len(rest) : rest[i] = e[i + 1]
    <3>1. Len(e) \in Nat \ {0}
      BY <1>3, EmptySeq
    <3> QED
      BY <1>3, <3>1, HeadTailProperties
  <2> HIDE DEF rest
  <2>2. \A i \in 1..(Len(rest) + 1) : QuietFrom(rest, i) => QuietFrom(e, i + 1)
    <3> TAKE i \in 1..(Len(rest) + 1)
    <3> HAVE QuietFrom(rest, i)
    <3> SUFFICES ASSUME NEW j \in (i + 1)..Len(e) PROVE e[j] = "change"
      BY DEF QuietFrom
    <3>1. j - 1 \in i..Len(rest) /\ j - 1 \in 1..Len(rest) /\ (j - 1) + 1 = j
      BY <2>1
    <3> QED
      BY <2>1, <3>1 DEF QuietFrom
  <2>3. QuietFrom(rest, 1) => (k \in now <=> k \in there)
    <3> HAVE QuietFrom(rest, 1)
    <3>1. QuietFrom(e, 2)
      BY <2>1, <2>2
    <3>2. CASE Head(e) = "change"
      <4>1. QuietFrom(e, 1)
        BY <2>1, <3>1, <3>2 DEF QuietFrom
      <4> QED
        BY <1>3, <3>2, <4>1 DEF Tells
    <3>3. CASE Head(e) # "change"
      BY <1>3, <2>1, <3>1, <3>3 DEF Tells
    <3> QED
      BY <3>2, <3>3
  <2>4. ASSUME NEW i \in 1..Len(rest), rest[i] # "change",
               QuietFrom(rest, i + 1)
        PROVE  rest[i] = "add" <=> k \in there
    <3>1. /\ i + 1 \in 1..Len(e) /\ rest[i] = e[i + 1]
          /\ i + 1 \in 1..(Len(rest) + 1)
      BY <2>1
    <3>2. QuietFrom(e, (i + 1) + 1)
      BY <2>2, <2>4, <3>1
    <3> QED
      BY <1>3, <2>4, <3>1, <3>2 DEF Tells
  <2> QED
    BY <2>3, <2>4 DEF Tells
<1>4. Inv /\ [Next]_vars => Inv'
  <2> SUFFICES ASSUME Inv, [Next]_vars PROVE Inv'
    OBVIOUS
  <2> USE DEF Inv, Types
  <2>1. CASE Monitor \/ \E k \in Keyboards : Iterate(k)
    <3>1. /\ UNCHANGED <<alive, plugged, kbds, objects, events, missed>>
          /\ monitoring' \in BOOLEAN /\ (monitoring => monitoring')
      <4>1. CASE Monitor
        BY <4>1 DEF Monitor, drivers, past
      <4>2. ASSUME NEW k \in Keyboards, Iterate(k)
            PROVE  UNCHANGED <<alive, monitoring, plugged, kbds, objects, events,
                               missed>>
        <5>1. UNCHANGED <<alive, monitoring, kbds, objects, events>> /\ Visit(k)
          BY <4>2 DEF Iterate
        <5>2. UNCHANGED <<plugged, missed>>
          BY <5>1 DEF Visit, Write, drivers, past
        <5> QED
          BY <5>1, <5>2
      <4> QED
        BY <2>1, <4>1, <4>2
    <3> QED
      BY <3>1 DEF Tells, QuietFrom
  <2>2. CASE Calls
    <3>1. \/ UNCHANGED <<alive, monitoring, plugged, kbds, objects, events,
                         missed>>
          \/ /\ alive' = FALSE
             /\ UNCHANGED <<monitoring, plugged, kbds, objects, events, missed>>
      BY <2>2 DEF Calls, Begin, Get, Reply, drivers, past
    <3>2. CASE UNCHANGED <<alive, monitoring, plugged, kbds, objects, events,
                           missed>>
      BY <3>2 DEF Tells, QuietFrom
    <3>3. CASE /\ alive' = FALSE
               /\ UNCHANGED <<monitoring, plugged, kbds, objects, events,
                              missed>>
      BY <3>3
    <3> QED
      BY <3>1, <3>2, <3>3
  <2>3. ASSUME NEW k \in Keyboards, UdevEvent(k) PROVE Inv'
    <3> DEFINE e == events[k]
    <3>1. e \in Seq(Event) /\ e # << >>
      BY <2>3 DEF UdevEvent
    <3>2. Head(e) \in Event /\ Tail(e) \in Seq(Event)
      BY <3>1, HeadTailProperties
    <3>3. /\ events' = [events EXCEPT ![k] = Tail(e)]
          /\ UNCHANGED <<monitoring, plugged, missed>> /\ alive /\ monitoring
      BY <2>3 DEF UdevEvent, Ready, drivers
    <3>4. /\ alive' \in BOOLEAN /\ objects' = kbds' /\ kbds' \subseteq Keyboards
          /\ \A other \in Keyboards \ {k} : other \in kbds' <=> other \in kbds
      BY <2>3, <3>3 DEF UdevEvent, Added, Changed, Forgotten
    <3>5. ASSUME alive', k \notin missed
          PROVE  Tells(Tail(e), k, kbds', plugged)
      <4>1. Tells(e, k, kbds, plugged)
        BY <3>3, <3>5
      <4>2. CASE Head(e) = "change"
        <5>1. k \in kbds' <=> k \in kbds
          BY <2>3, <4>2 DEF UdevEvent
        <5> QED
          BY <1>3, <3>1, <4>1, <4>2, <5>1
      <4>3. CASE Head(e) # "change"
        <5>1. k \in kbds' <=> Head(e) = "add"
          BY <2>3, <3>2, <3>5, <4>3 DEF UdevEvent, Added, Forgotten
        <5> QED
          BY <1>3, <3>1, <4>1, <4>3, <5>1
      <4> QED
        BY <4>2, <4>3
    <3> HIDE DEF e
    <3>6. alive' => \A other \in Keyboards \ missed :
                      Tells(events[other], other, kbds, plugged)'
      BY <3>3, <3>4, <3>5 DEF Tells
    <3>7. events' \in [Keyboards -> Seq(Event)]
      BY <3>2, <3>3
    <3> QED
      BY <3>3, <3>4, <3>6, <3>7
  <2>4. ASSUME NEW k \in Keyboards, Keys(k) PROVE Inv'
    <3>1. /\ UNCHANGED <<alive, monitoring, plugged, kbds, objects>> /\ alive
          /\ \/ events' = events
             \/ events' = IF monitoring
                            THEN [events EXCEPT
                                    ![k] = Append(events[k], "change")]
                            ELSE events
          /\ missed' = IF monitoring THEN missed ELSE missed \cup {k}
      BY <2>4 DEF Keys, Send
    <3>2. CASE ~monitoring
      BY <3>1, <3>2
    <3>3. CASE monitoring
      <4>1. events[k] \in Seq(Event) /\ Append(events[k], "change") \in Seq(Event)
        BY AppendProperties
      <4>2. k \notin missed =>
              Tells(Append(events[k], "change"), k, kbds, plugged)
        BY <1>2, <3>1, <4>1
      <4> QED
        BY <3>1, <3>3, <4>1, <4>2
    <3> QED
      BY <3>2, <3>3
  <2>5. ASSUME NEW k \in Keyboards, Hotplug(k) PROVE Inv'
    <3> DEFINE event == IF k \in plugged THEN "remove" ELSE "add"
    <3>1. /\ UNCHANGED <<alive, monitoring, kbds, objects>> /\ alive
          /\ events' = IF monitoring
                         THEN [events EXCEPT ![k] = Append(events[k], event)]
                         ELSE events
          /\ missed' = IF monitoring THEN missed ELSE missed \cup {k}
          /\ plugged' \subseteq Keyboards
          /\ k \in plugged' <=> k \notin plugged
          /\ \A other \in Keyboards \ {k} :
               other \in plugged' <=> other \in plugged
      BY <2>5 DEF Hotplug, Send
    <3>2. CASE ~monitoring
      BY <3>1, <3>2 DEF Tells
    <3>3. CASE monitoring
      <4>1. events[k] \in Seq(Event) /\ event \in Event
            /\ Append(events[k], event) \in Seq(Event)
        BY AppendProperties
      <4>2. k \notin missed =>
              Tells(Append(events[k], event), k, kbds, plugged')
        BY <1>2, <3>1, <4>1
      <4> QED
        BY <3>1, <3>3, <4>1, <4>2 DEF Tells
    <3> QED
      BY <3>2, <3>3
  <2>6. CASE UNCHANGED vars
    BY <2>6 DEF vars, drivers, past
  <2> QED
    BY <2>1, <2>2, <2>3, <2>4, <2>5, <2>6 DEF Next
<1> QED
  BY <1>1, <1>4, PTL DEF Spec

\* Once its events are handled, a keyboard is known iff it is plugged, and its
\* object is that of the map, for any queue of events, of any length
\* (keyboard.c:88-89).
THEOREM KnownCorrect == Spec => []KnownInSync
<1>1. Inv => KnownInSync
  BY EmptySeq DEF Inv, Types, Tells, QuietFrom, KnownInSync, Settled
<1> QED
  BY <1>1, KeyboardInv, PTL

-----------------------------------------------------------------------------
(* What peers are told, and the calls that write *)

\* An event of queue e will tell peers the brightness again, or forget the
\* keyboard.
Awaits(e) == \E i \in 1..Len(e) : e[i] # "add"

\* What peers were told is the brightness, unless an event is under way.
Told ==
  alive => \A k \in (kbds \ silent) \ missed :
             Known(k) = level[k] \/ Awaits(events[k])

Answers == [signal : BOOLEAN, value : Int]

Values ==
  /\ level \in [Keyboards -> Nat]
  /\ \A k \in Keyboards : level[k] \in 0..MaxOf[k]
  /\ timeout \in [Keyboards -> Int]
  /\ told \in [Keyboards -> Answers]

\* The call under way has a value that its attribute takes, and goes on only
\* as long as no callback failed.
CallOK ==
  /\ call \in [attr : Attributes, value : Int, on : SUBSET Keyboards,
               todo : SUBSET Keyboards, ok : BOOLEAN,
               pressed : SUBSET Keyboards]
  /\ call.todo \subseteq call.on
  /\ call.attr = "brightness" => call.value \in 0..Full
  /\ call.todo # {} => call.ok

\* As long as no callback failed, the keyboards that it has passed have the
\* value.
Passed == call.ok => \A k \in call.on \ call.todo : Reached(k)

\* Rounding: a percentage is a level of the keyboard, and that of a level leads
\* back to it (keyboard.c:122, 187).
LEMMA LevelLemma ==
  ASSUME NEW k \in Keyboards
  PROVE  /\ \A p \in 0..Full : Level(k, p) \in 0..MaxOf[k]
         /\ \A v \in 0..MaxOf[k] : /\ Pct(k, v) \in 0..Full
                                  /\ Level(k, Pct(k, v)) = v
<1> DEFINE M == MaxOf[k]
<1>1. /\ M \in Nat \ {0} /\ Full \in Nat \ {0} /\ Full >= 2 * M
  BY KeyboardAssumption
<1> HIDE DEF M
<1>2. ASSUME NEW x \in Int, NEW v \in Int, 2 * v * Full <= x,
             x < 2 * v * Full + 2 * Full
      PROVE  x \div (2 * Full) = v
  <2> DEFINE d == 2 * Full
  <2>1. d \in Nat \ {0} /\ v * d <= x /\ x < v * d + d
    BY <1>1, <1>2
  <2> HIDE DEF d
  <2>2. x \div d = v
    BY <2>1
  <2> QED
    BY <2>2 DEF d
<1>3. ASSUME NEW p \in 0..Full PROVE Level(k, p) \in 0..M
  <2> DEFINE x == 2 * p * M + Full
             d == 2 * Full
  <2>1. p * M \in Nat /\ p * M <= Full * M
    BY <1>1
  <2>2. x \in Nat /\ x < M * d + d /\ d \in Nat \ {0}
    BY <1>1, <2>1
  <2> HIDE DEF x, d
  <2>3. x \div d \in 0..M
    BY <1>1, <2>2
  <2> QED
    BY <2>3 DEF Level, x, d, M
<1>4. ASSUME NEW v \in 0..M
      PROVE  Pct(k, v) \in 0..Full /\ Level(k, Pct(k, v)) = v
  <2> DEFINE w == v * Full
             p == w \div M
  <2>1. w \in Nat /\ w <= M * Full
    BY <1>1
  <2> HIDE DEF w
  <2>2. p \in Nat /\ p * M <= w /\ w < p * M + M /\ p <= Full
    BY <1>1, <2>1
  <2>3. Pct(k, v) = p
    BY DEF Pct, M, w
  <2> HIDE DEF p
  <2> DEFINE q == p * M
  <2>4. q \in Nat
    BY <1>1, <2>2
  <2>5. q <= w /\ w < q + M
    BY <2>2
  <2>6. 2 * p * M = 2 * q
    BY <1>1, <2>2
  <2>7. 2 * v * Full = 2 * w
    BY <1>1 DEF w
  <2> HIDE DEF q
  <2>8. (2 * q + Full) \div (2 * Full) = v
    <3>1. 2 * q + Full \in Int /\ 2 * w <= 2 * q + Full
          /\ 2 * q + Full < 2 * w + 2 * Full
      BY <1>1, <2>1, <2>4, <2>5
    <3> QED
      BY <1>2, <2>7, <3>1
  <2> QED
    BY <2>2, <2>3, <2>6, <2>8 DEF Level, M
<1> QED
  BY <1>3, <1>4 DEF M

\* Every step keeps the values in range, peers informed and the call on its way.
LEMMA ValuesInv == Spec => [](Values /\ CallOK /\ Told /\ Passed)
<1> USE DEF Event
<1> DEFINE All == Values /\ CallOK /\ Told /\ Passed
<1>1. Init => All
  <2> SUFFICES ASSUME Init PROVE All
    OBVIOUS
  <2>1. /\ MaxOf \in [Keyboards -> Nat \ {0}] /\ Full \in Nat \ {0}
    BY KeyboardAssumption
  <2>2. CallOK /\ Passed
    BY <2>1 DEF Init, CallOK, Passed, NoCall, CallOn, Attributes
  <2>3. Values
    BY <2>1 DEF Init, Values, Unsignalled, Answers
  <2>4. Told
    BY DEF Init, Told, Known, Unsignalled
  <2> QED
    BY <2>2, <2>3, <2>4
<1>2. Inv /\ All /\ [Next]_vars => All'
  <2> SUFFICES ASSUME Inv, All, [Next]_vars PROVE All'
    OBVIOUS
  <2> USE DEF Inv, Types, Values
  <2>1. ASSUME NEW D, Begin(D), D \subseteq kbds PROVE All'
    <3>1. /\ UNCHANGED <<alive, drivers, kbds, events, past>>
          /\ \/ \E p \in Targets : IsPct(p) /\ call' = CallOn(D, "brightness", p)
             \/ \E t \in Timeouts : call' = CallOn(D, "stop_timeout", t)
      BY <2>1 DEF Begin
    <3>2. CallOK' /\ Passed'
      <4>1. PICK a \in Attributes, x \in Int :
              /\ call' = CallOn(D, a, x)
              /\ a = "brightness" => x \in 0..Full
        BY <3>1, KeyboardAssumption DEF Attributes, IsPct
      <4>2. D \in SUBSET Keyboards
        BY <2>1
      <4> QED
        BY <4>1, <4>2 DEF CallOn, CallOK, Passed
    <3> QED
      BY <3>1, <3>2 DEF Told, Known, drivers, past
  <2>2. CASE Reply
    <3>1. CallOK' /\ Passed'
      BY <2>2, KeyboardAssumption
      DEF Reply, NoCall, CallOn, CallOK, Passed, Attributes
    <3> QED
      BY <2>2, <3>1 DEF Reply, Told, Known, drivers, past
  <2>3. ASSUME NEW D, Get(D) PROVE All'
    BY <2>3 DEF Get, Told, CallOK, Passed, Reached, drivers, past
  <2>4. ASSUME NEW k \in Keyboards, Iterate(k) PROVE All'
    <3>1. /\ UNCHANGED <<alive, kbds, events>> /\ k \in call.todo /\ call.ok
          /\ Visit(k)
      BY <2>4 DEF Iterate, CallOK
    <3>2. CASE Write(k) /\ call' = [call EXCEPT !.todo = @ \ {k}, !.ok = TRUE,
                                                !.pressed = @ \ {k}]
      <4> DEFINE v == Level(k, call.value)
      <4>1. call.attr = "brightness" => v \in 0..MaxOf[k] /\ v \in Nat
        BY LevelLemma, KeyboardAssumption DEF CallOK
      <4> HIDE DEF v
      <4>2. /\ \/ /\ call.attr = "brightness"
                  /\ level' = [level EXCEPT ![k] = v]
                  /\ told' = [told EXCEPT ![k] = Signalled(call.value)]
                  /\ silent' = silent \ {k} /\ timeout' = timeout
               \/ /\ call.attr = "stop_timeout"
                  /\ timeout' = [timeout EXCEPT ![k] = call.value]
                  /\ UNCHANGED <<level, told, silent>>
            /\ missed' = missed
        BY <3>2 DEF Write, CallOK, Attributes, v
      <4>3. Signalled(call.value) \in Answers /\ call.value \in Int
        BY DEF CallOK, Signalled, Answers
      <4>4. Values'
        BY <4>1, <4>2, <4>3
      <4>5. Told'
        <5> SUFFICES ASSUME alive, NEW e \in (kbds \ silent') \ missed
                     PROVE  Known(e)' = level'[e] \/ Awaits(events[e])
          BY <3>1, <4>2 DEF Told
        <5>1. CASE e = k /\ call.attr = "brightness"
          BY <4>2, <5>1 DEF Known, Signalled, v
        <5>2. CASE e # k \/ call.attr = "stop_timeout"
          <6>1. /\ e \in (kbds \ silent) \ missed
                /\ told'[e] = told[e] /\ level'[e] = level[e]
            BY <4>2, <5>2
          <6> QED
            BY <6>1 DEF Told, Known
        <5> QED
          BY <4>2, <5>1, <5>2
      <4>6. /\ CallOK' /\ call'.on = call.on /\ call'.attr = call.attr
            /\ call'.value = call.value /\ call'.todo = call.todo \ {k}
            /\ call'.pressed = call.pressed \ {k}
        BY <3>1, <3>2 DEF CallOK
      <4>7. Passed'
        <5> SUFFICES ASSUME NEW e \in call.on \ (call.todo \ {k})
                     PROVE  Reached(e)'
          BY <4>6 DEF Passed
        <5>1. CASE e = k
          BY <4>2, <4>6, <5>1 DEF Reached, v
        <5>2. CASE e # k
          <6>1. /\ Reached(e) /\ e \in Keyboards
                /\ level'[e] = level[e] /\ timeout'[e] = timeout[e]
            BY <3>1, <4>2, <5>2 DEF Passed, CallOK
          <6> QED
            BY <4>6, <5>2, <6>1 DEF Reached
        <5> QED
          BY <5>1, <5>2
      <4> QED
        BY <4>4, <4>5, <4>6, <4>7
    <3>3. CASE /\ call' = [call EXCEPT !.todo = {}, !.ok = FALSE]
               /\ UNCHANGED <<drivers, past>>
      <4>1. CallOK' /\ Passed'
        BY <3>3 DEF CallOK, Passed
      <4> QED
        BY <3>1, <3>3, <4>1 DEF Told, Known, drivers, past
    <3> QED
      BY <3>1, <3>2, <3>3 DEF Visit
  <2>5. ASSUME NEW k \in Keyboards, UdevEvent(k) PROVE All'
    <3> DEFINE e == events[k]
    <3>1. /\ e \in Seq(Event) /\ e # << >> /\ alive
          /\ events' = [events EXCEPT ![k] = Tail(e)]
          /\ UNCHANGED <<level, timeout, missed, call>>
      BY <2>5 DEF UdevEvent, Ready, drivers
    <3>2. /\ Len(e) \in Nat \ {0} /\ Len(Tail(e)) = Len(e) - 1
          /\ Head(e) = e[1] /\ Head(e) \in Event
          /\ \A i \in 1..Len(Tail(e)) : Tail(e)[i] = e[i + 1]
      BY <3>1, EmptySeq, HeadTailProperties
    <3>3. Awaits(e) /\ Head(e) = "add" => Awaits(Tail(e))
      <4> SUFFICES ASSUME NEW i \in 1..Len(e), e[i] # "add", e[1] = "add"
                   PROVE  Awaits(Tail(e))
        BY <3>2 DEF Awaits
      <4> HIDE DEF e
      <4>1. i - 1 \in 1..Len(Tail(e)) /\ (i - 1) + 1 = i
        BY <3>2
      <4>2. Tail(e)[i - 1] = e[i]
        BY <3>2, <4>1
      <4> QED
        BY <4>1, <4>2 DEF Awaits
    <3>4. /\ Pct(k, level[k]) \in Int
          /\ Level(k, Pct(k, level[k])) = level[k]
      BY LevelLemma
    <3>5. /\ told' \in [Keyboards -> Answers]
          /\ \A other \in Keyboards \ {k} :
               /\ other \in kbds' <=> other \in kbds
               /\ other \in silent' <=> other \in silent
               /\ told'[other] = told[other]
      <4>1. /\ Signalled(Pct(k, level[k])) \in Answers
            /\ Unsignalled(level[k]) \in Answers
        BY <3>4 DEF Signalled, Unsignalled, Answers
      <4>2. CASE Added(k)
        BY <4>1, <4>2 DEF Added
      <4>3. CASE Forgotten(k) /\ UNCHANGED <<told, silent>>
        BY <4>3 DEF Forgotten
      <4>4. CASE Changed(k) /\ UNCHANGED kbds
        BY <4>1, <4>4 DEF Changed
      <4> QED
        BY <2>5, <4>2, <4>3, <4>4 DEF UdevEvent
    <3>6. alive' /\ k \in (kbds' \ silent') \ missed =>
            Known(k)' = level[k] \/ Awaits(Tail(e))
      <4> HAVE alive' /\ k \in (kbds' \ silent') \ missed
      <4>1. k \in kbds \ silent => Known(k) = level[k] \/ Awaits(e)
        BY <3>1 DEF Told
      <4>2. CASE Head(e) = "add"
        <5> HIDE DEF e
        <5>1. Added(k)
          BY <2>5, <4>2 DEF UdevEvent, e
        <5>2. CASE k \in kbds
          BY <3>3, <4>1, <4>2, <5>1, <5>2 DEF Added, Known
        <5>3. CASE k \notin kbds
          <6>1. /\ told' = [told EXCEPT ![k] = Unsignalled(level[k])]
            BY <5>1, <5>3 DEF Added
          <6>2. told'[k] = Unsignalled(level[k])
            BY <6>1
          <6> QED
            BY <6>2 DEF Known, Unsignalled
        <5> QED
          BY <5>2, <5>3
      <4>3. CASE Head(e) # "add"
        <5> HIDE DEF e
        <5>1. k \in kbds' /\ Changed(k) /\ kbds' = kbds
          BY <2>5, <4>3 DEF UdevEvent, Forgotten, e
        <5>2. told' = [told EXCEPT ![k] = Signalled(Pct(k, level[k]))]
          BY <5>1 DEF Changed
        <5>3. told'[k] = Signalled(Pct(k, level[k]))
          BY <5>2
        <5>4. Known(k)' = Level(k, Pct(k, level[k]))
          BY <5>3 DEF Known, Signalled, Level
        <5> QED
          BY <3>4, <5>4
      <4> QED
        BY <4>2, <4>3
    <3>7. kbds' \subseteq Keyboards
      BY <2>5 DEF UdevEvent, Added, Changed, Forgotten
    <3> HIDE DEF e
    <3>8. Told'
      <4> SUFFICES ASSUME alive', NEW other \in (kbds' \ silent') \ missed'
                   PROVE  Known(other)' = level'[other] \/ Awaits(events'[other])
        BY DEF Told
      <4>1. CASE other = k
        BY <3>1, <3>6, <4>1
      <4>2. CASE other # k
        <5>1. /\ other \in (kbds \ silent) \ missed /\ told'[other] = told[other]
              /\ events'[other] = events[other] /\ level' = level
          BY <3>1, <3>5, <3>7, <4>2
        <5> QED
          BY <3>1, <5>1 DEF Told, Known
      <4> QED
        BY <4>1, <4>2
    <3> QED
      BY <3>1, <3>5, <3>8 DEF CallOK, Passed, Reached
  <2>6. \* an event that is sent
        ASSUME NEW k \in Keyboards, NEW event \in Event, Send(k, event), alive,
               missed' = IF monitoring THEN missed ELSE missed \cup {k},
               event = "change" \/ level' = level,
               \A other \in Keyboards \ {k} : level'[other] = level[other],
               UNCHANGED <<alive, monitoring, kbds, told, silent>>
        PROVE  Told'
    <3>1. CASE ~monitoring
      BY <2>6, <3>1 DEF Send, Told, Known
    <3>2. CASE monitoring
      <4> DEFINE e == events[k]
                 new == Append(e, event)
      <4>1. /\ Len(e) \in Nat /\ Len(new) = Len(e) + 1
            /\ new[Len(e) + 1] = event
            /\ \A i \in 1..Len(e) : new[i] = e[i]
        BY LenProperties, AppendProperties
      <4> HIDE DEF new
      <4>2. Awaits(e) \/ event # "add" => Awaits(new)
        <5>1. CASE Awaits(e)
          <6>1. PICK i \in 1..Len(e) : e[i] # "add"
            BY <5>1 DEF Awaits
          <6>2. i \in 1..Len(new) /\ new[i] # "add"
            BY <4>1, <6>1
          <6> QED
            BY <6>2 DEF Awaits
        <5>2. CASE event # "add"
          <6>1. Len(e) + 1 \in 1..Len(new)
            BY <4>1
          <6> QED
            BY <4>1, <5>2, <6>1 DEF Awaits
        <5> QED
          BY <5>1, <5>2
      <4>3. events' = [events EXCEPT ![k] = new] /\ missed' = missed
        BY <2>6, <3>2 DEF Send, new
      <4> QED
        BY <2>6, <4>2, <4>3 DEF Told, Known
    <3> QED
      BY <3>1, <3>2
  <2>7. ASSUME NEW k \in Keyboards, Keys(k) PROVE All'
    <3>1. PICK v \in 0..MaxOf[k] : level' = [level EXCEPT ![k] = v]
      BY <2>7 DEF Keys
    <3>2. /\ call' = IF Busy THEN [call EXCEPT !.pressed = @ \cup {k}] ELSE call
          /\ UNCHANGED <<alive, monitoring, timeout, kbds, told>> /\ alive
          /\ missed' = IF monitoring THEN missed ELSE missed \cup {k}
      BY <2>7 DEF Keys
    <3>3. 0..MaxOf[k] \subseteq Nat
      BY KeyboardAssumption
    <3>4. Values'
      BY <3>1, <3>2, <3>3
    <3>5. Told'
      <4>1. CASE k \in Reporting
        BY <2>6, <2>7, <3>1, <4>1 DEF Keys
      <4>2. CASE k \notin Reporting
        <5>1. silent' = silent \cup {k} /\ events' = events
          BY <2>7, <4>2 DEF Keys
        <5> QED
          BY <3>1, <3>2, <5>1 DEF Told, Known
      <4> QED
        BY <4>1, <4>2
    <3>6. CallOK' /\ Passed'
      <4>1. CASE Busy
        <5>1. call' = [call EXCEPT !.pressed = @ \cup {k}]
          BY <3>2, <4>1
        <5>2. /\ call'.pressed = call.pressed \cup {k}
              /\ call'.attr = call.attr /\ call'.value = call.value
              /\ call'.on = call.on /\ call'.todo = call.todo
              /\ call'.ok = call.ok /\ CallOK'
          BY <5>1 DEF CallOK
        <5>3. ASSUME NEW e \in Keyboards, Reached(e) PROVE Reached(e)'
          BY <3>1, <3>2, <5>2, <5>3 DEF Reached
        <5> QED
          BY <5>2, <5>3 DEF Passed, CallOK
      <4>2. CASE ~Busy
        BY <3>2, <4>2 DEF Busy, CallOK, Passed
      <4> QED
        BY <4>1, <4>2
    <3> QED
      BY <3>4, <3>5, <3>6
  <2>8. ASSUME NEW k \in Keyboards, Hotplug(k) PROVE All'
    <3>1. Told'
      BY <2>6, <2>8 DEF Hotplug
    <3> QED
      BY <2>8, <3>1 DEF Hotplug, CallOK, Passed, Reached
  <2>9. CASE Monitor \/ UNCHANGED vars
    <3>1. /\ UNCHANGED <<alive, drivers, kbds, events, call, past>>
      BY <2>9 DEF Monitor, vars
    <3>2. UNCHANGED <<alive, level, timeout, kbds, events, call, told, silent,
                      missed>>
      BY <3>1 DEF drivers, past
    <3>3. Told' /\ CallOK' /\ Passed'
      BY <3>2 DEF Told, Known, CallOK, Passed, Reached
    <3> QED
      BY <3>2, <3>3
  <2>10. CASE Calls
    BY <2>1, <2>2, <2>3, <2>10 DEF Calls
  <2> QED
    BY <2>4, <2>5, <2>7, <2>8, <2>9, <2>10 DEF Next
<1> QED
  BY <1>1, <1>2, KeyboardInv, PTL DEF Spec

\* Once its events are handled, the last Changed signal since a keyboard was
\* added told its brightness, unless its keys changed it without an event, for
\* queues of any length and any mix of drivers (keyboard.c:119-131, 190-194).
THEOREM PeersInformed == Spec => []ToldInSync
<1>1. Inv /\ Told => ToldInSync
  <2> SUFFICES ASSUME Inv, Told, NEW k \in kbds \ silent, Settled(k)
               PROVE  Known(k) = level[k]
    BY DEF ToldInSync
  <2>1. 1..Len(events[k]) = {}
    BY DEF Settled
  <2> QED
    BY <2>1 DEF Told, Settled, Awaits
<1> QED
  BY <1>1, KeyboardInv, ValuesInv, PTL

\* A Set or SetTimeout that answers yes has written on every keyboard it was
\* meant for, for any number of keyboards, visited in any order, whichever of
\* them refuse or go on the way (keyboard.c:217-222, 277-282).
THEOREM AnswersTrue == Spec => YesMeansAll
<1>1. /\ CallOK /\ Passed /\ [Next]_vars
      => [Reply /\ answer' => \A k \in call.on : Reached(k)]_vars
  <2> SUFFICES ASSUME CallOK, Passed, Reply, answer', NEW k \in call.on
               PROVE  Reached(k)
    OBVIOUS
  <2> QED
    BY DEF Reply, Passed
<1> QED
  BY <1>1, ValuesInv, PTL DEF Spec, YesMeansAll
=============================================================================
