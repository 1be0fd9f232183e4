--------------------------- MODULE MonitorsProofs ---------------------------
(***************************************************************************)
(* Proofs about Monitors, for any set of monitors, ids and number of       *)
(* detections: references to displays are never stale, peers know the      *)
(* devices of the map, and an emulated brightness belongs to a device.     *)
(***************************************************************************)
EXTENDS Monitors, TLAPS

\* What is inductive: the devices have the cookie and the references of the
\* last detection.
Filed == bls \in [Ids -> Device \cup {Absent}]
Cookies == curr_cookie \in 0..MaxCookie
Current ==
  \A i \in Known : bls[i].cookie = curr_cookie /\ bls[i].detected = curr_cookie
Brightness == DOMAIN gamma_brightness = Ids
Inv == Filed /\ Cookies /\ Current /\ ObjectsKnown /\ Brightness
         /\ BrightnessOwned

\* The ids of the monitors that a detection lists.
Found(seen, heard) == UNION {IdOf(m, m \in heard) : m \in seen}

\* What a detection makes of the map: a device that it found has its cookie and
\* its references, any other one is as it was; none is lost, and none changes
\* its kind.
Merged(old, cookie, seen, heard, loaded) ==
  /\ loaded \in [Ids -> Device \cup {Absent}]
  /\ \A i \in Ids :
       /\ old[i] # Absent =>
            loaded[i] # Absent /\ loaded[i].emulated = old[i].emulated
       /\ i \in Found(seen, heard) =>
            /\ loaded[i] # Absent
            /\ loaded[i].cookie = cookie /\ loaded[i].detected = cookie
       /\ i \notin Found(seen, heard) => loaded[i] = old[i]

LEMMA LoadsLemma ==
  ASSUME NEW old \in [Ids -> Device \cup {Absent}],
         NEW cookie \in 0..MaxCookie,
         NEW seen \in SUBSET Monitors, NEW heard \in SUBSET seen,
         NEW loaded \in Loads(old, cookie, seen, heard)
  PROVE  Merged(old, cookie, seen, heard, loaded)
<1> DEFINE ids == [m \in seen |-> IdOf(m, m \in heard)]
           found == UNION {ids[m] : m \in seen}
<1>1. PICK f \in [found -> seen] :
        /\ \A i \in found : i \in ids[f[i]]
        /\ loaded = [i \in Ids |->
             IF i \notin found THEN old[i]
             ELSE IF old[i] = Absent THEN Fresh(cookie, f[i], f[i] \in heard)
             ELSE Refreshed(old[i], cookie, f[i])]
  BY DEF Loads
<1>2. ASSUME NEW i \in Ids
      PROVE  /\ loaded[i] \in Device \cup {Absent}
             /\ old[i] # Absent =>
                  loaded[i] # Absent /\ loaded[i].emulated = old[i].emulated
             /\ i \in found =>
                  /\ loaded[i] # Absent
                  /\ loaded[i].cookie = cookie /\ loaded[i].detected = cookie
             /\ i \notin found => loaded[i] = old[i]
  <2>1. CASE i \notin found
    BY <1>1, <2>1
  <2>2. CASE i \in found /\ old[i] = Absent
    <3>1. f[i] \in Monitors
      BY <1>1, <2>2
    <3>2. loaded[i] = Fresh(cookie, f[i], f[i] \in heard)
      BY <1>1, <2>2
    <3>3. loaded[i] = [cookie |-> cookie, detected |-> cookie,
                       monitor |-> f[i], emulated |-> ~(f[i] \in heard)]
      BY <3>2 DEF Fresh
    <3>4. loaded[i] \in Device
      BY <3>1, <3>3 DEF Device
    <3> QED
      BY <2>2, <3>3, <3>4, DeviceAssumption
  <2>3. CASE i \in found /\ old[i] # Absent
    <3>1. f[i] \in Monitors /\ old[i] \in Device
      BY <1>1, <2>3
    <3>2. loaded[i] = [old[i] EXCEPT !.cookie = cookie, !.detected = cookie,
                                     !.monitor = f[i]]
      BY <1>1, <2>3 DEF Refreshed
    <3>3. /\ loaded[i] \in Device
          /\ loaded[i].emulated = old[i].emulated
          /\ loaded[i].cookie = cookie /\ loaded[i].detected = cookie
      BY <3>1, <3>2 DEF Device
    <3> QED
      BY <2>3, <3>3, DeviceAssumption
  <2> QED
    BY <2>1, <2>2, <2>3
<1>3. loaded \in [Ids -> Device \cup {Absent}]
  BY <1>1, <1>2
<1>4. found = Found(seen, heard)
  BY DEF Found
<1> QED
  BY <1>2, <1>3, <1>4 DEF Merged

\* The events of a detection are about monitors.
LEMMA DetectionsLemma ==
  ASSUME present \in SUBSET Monitors, NEW e \in Detections
  PROVE  e[1] \in SUBSET Monitors /\ e[2] \in SUBSET e[1]
BY DEF Detections

-----------------------------------------------------------------------------

LEMMA ReceiveInv ==
  ASSUME present \subseteq Monitors, Inv, Receive
  PROVE  present' \subseteq Monitors /\ Inv'
<1> DEFINE new == curr_cookie'
<1>1. /\ new = curr_cookie + 1 /\ new \in 0..MaxCookie /\ new > 0
      /\ present' = present
  BY MonitorsAssumption DEF Inv, Cookies, Receive
<1>11. PICK e \in Detections :
       \E loaded \in Loads(bls, new, e[1], e[2]) :
        LET gone == {i \in Ids : loaded[i] # Absent /\ Stale(loaded[i], new)}
            added == {i \in Ids : loaded[i] # Absent /\ bls[i] = Absent}
        IN  /\ bls' = [i \in Ids |-> IF i \in gone THEN Absent ELSE loaded[i]]
            /\ gamma_brightness' = Cleaned({i \in gone : loaded[i].emulated})
            /\ objects' = (objects \cup (IF Announces(new) THEN added ELSE {}))
                            \ gone
  BY DEF Receive
<1>2. PICK loaded \in Loads(bls, new, e[1], e[2]) :
        LET gone == {i \in Ids : loaded[i] # Absent /\ Stale(loaded[i], new)}
            added == {i \in Ids : loaded[i] # Absent /\ bls[i] = Absent}
        IN  /\ bls' = [i \in Ids |-> IF i \in gone THEN Absent ELSE loaded[i]]
            /\ gamma_brightness' = Cleaned({i \in gone : loaded[i].emulated})
            /\ objects' = (objects \cup (IF Announces(new) THEN added ELSE {}))
                            \ gone
  BY <1>11
<1> DEFINE gone == {i \in Ids : loaded[i] # Absent /\ Stale(loaded[i], new)}
           added == {i \in Ids : loaded[i] # Absent /\ bls[i] = Absent}
<1>3. /\ bls' = [i \in Ids |-> IF i \in gone THEN Absent ELSE loaded[i]]
      /\ gamma_brightness' = Cleaned({i \in gone : loaded[i].emulated})
      /\ objects' = (objects \cup added) \ gone
  BY <1>1, <1>2 DEF Announces
<1>4. e[1] \in SUBSET Monitors /\ e[2] \in SUBSET e[1]
  BY DetectionsLemma
<1>12. Merged(bls, new, e[1], e[2], loaded)
  <2> HIDE DEF new
  <2> QED
    BY <1>1, <1>2, <1>4, LoadsLemma DEF Inv, Filed
<1>5. /\ loaded \in [Ids -> Device \cup {Absent}]
      /\ \A i \in Ids :
           /\ bls[i] # Absent =>
                loaded[i] # Absent /\ loaded[i].emulated = bls[i].emulated
           /\ loaded[i] = bls[i] \/
                (/\ loaded[i] # Absent
                 /\ loaded[i].cookie = new /\ loaded[i].detected = new)
  BY <1>12 DEF Merged
<1> HIDE DEF new
<1>6. Filed' /\ Cookies'
  BY <1>1, <1>3, <1>5 DEF Filed, Cookies, new
<1>7. Known' = {i \in Ids : loaded[i] # Absent} \ gone
  BY <1>3 DEF Known
<1>8. Current'
  <2> SUFFICES ASSUME NEW i \in Known'
               PROVE  bls'[i].cookie = new /\ bls'[i].detected = new
    BY DEF Current, new
  <2>1. i \in Ids /\ i \notin gone /\ loaded[i] # Absent /\ bls'[i] = loaded[i]
    BY <1>3, <1>7
  <2>2. loaded[i].cookie = new
    BY <2>1 DEF Stale
  <2>3. CASE loaded[i] = bls[i]
    <3>1. bls[i].cookie = curr_cookie
      BY <2>1, <2>3 DEF Inv, Current, Known
    <3> QED
      BY <1>1, <2>2, <2>3, <3>1 DEF Inv, Cookies
  <2> QED
    BY <1>5, <2>1, <2>3
<1>9. ObjectsKnown'
  BY <1>3, <1>5, <1>7 DEF Inv, ObjectsKnown, Known
<1>10. Brightness' /\ BrightnessOwned'
  <2>1. gamma_brightness' =
          [i \in Ids |-> IF i \in gone /\ loaded[i].emulated THEN Absent
                         ELSE gamma_brightness[i]]
    BY <1>3 DEF Cleaned
  <2>2. ASSUME NEW i \in Ids, gamma_brightness'[i] # Absent
        PROVE  i \in Known' /\ bls'[i].emulated
    <3>1. gamma_brightness[i] # Absent /\ ~(i \in gone /\ loaded[i].emulated)
      BY <2>1, <2>2
    <3>2. bls[i] # Absent /\ bls[i].emulated
      BY <3>1 DEF Inv, BrightnessOwned, Known
    <3>3. loaded[i] # Absent /\ loaded[i].emulated
      BY <1>5, <3>2
    <3> QED
      BY <1>3, <1>7, <3>1, <3>3
  <2> QED
    BY <2>1, <2>2 DEF Brightness, BrightnessOwned
<1> QED
  BY <1>1, <1>6, <1>8, <1>9, <1>10 DEF Inv

\* The devices of the map, after every detection of monitors that came, went or
\* did not answer.
THEOREM MonitorsInv == Spec => [](present \subseteq Monitors /\ Inv)
<1>1. Init => (present \subseteq Monitors /\ Inv)
  <2> SUFFICES ASSUME Init PROVE present \subseteq Monitors /\ Inv
    OBVIOUS
  <2>1. present \in SUBSET Monitors /\ curr_cookie = 0
    BY DEF Init
  <2> DEFINE none == [i \in Ids |-> Absent]
  <2>2. PICK e \in Detections : bls \in Loads(none, 0, e[1], e[2])
    BY DEF Init
  <2>3. e[1] \in SUBSET Monitors /\ e[2] \in SUBSET e[1]
    BY <2>1, DetectionsLemma
  <2>4. none \in [Ids -> Device \cup {Absent}]
    OBVIOUS
  <2>5. 0 \in 0..MaxCookie
    BY MonitorsAssumption
  <2>6. Merged(none, 0, e[1], e[2], bls)
    <3> HIDE DEF none
    <3> QED
      BY <2>2, <2>3, <2>4, <2>5, LoadsLemma
  <2>7. Filed /\ Current
    BY <2>1, <2>6 DEF Merged, Filed, Current, Known
  <2> QED
    BY <2>1, <2>5, <2>7
    DEF Init, Inv, Cookies, ObjectsKnown, Brightness, BrightnessOwned
<1>2. (present \subseteq Monitors /\ Inv) /\ [Next]_vars
        => (present \subseteq Monitors /\ Inv)'
  <2> SUFFICES ASSUME present \subseteq Monitors, Inv, [Next]_vars
               PROVE  present' \subseteq Monitors /\ Inv'
    OBVIOUS
  <2>1. CASE Receive
    BY <2>1, ReceiveInv
  <2>2. CASE GetMonitor \/ UNCHANGED vars \/ \E m \in Monitors : Hotplug(m)
    <3>1. /\ present' \subseteq Monitors
          /\ UNCHANGED <<bls, curr_cookie, objects, gamma_brightness>>
      BY <2>2 DEF GetMonitor, Hotplug, vars
    <3> QED
      BY <3>1 DEF Inv, Filed, Cookies, Current, ObjectsKnown, Brightness,
                  BrightnessOwned, Known
  <2>3. ASSUME NEW i \in Ids, NEW value \in Levels, Set(i, value)
        PROVE  present' \subseteq Monitors /\ Inv'
    <3>1. UNCHANGED <<present, bls, curr_cookie, objects>>
      BY <2>3 DEF Set
    <3>2. Brightness' /\ BrightnessOwned'
      BY <2>3, <3>1 DEF Set, Inv, Brightness, BrightnessOwned, Known
    <3> QED
      BY <3>1, <3>2 DEF Inv, Filed, Cookies, Current, ObjectsKnown, Known
  <2> QED
    BY <2>1, <2>2, <2>3 DEF Next
<1> QED
  BY <1>1, <1>2, PTL DEF Spec

\* No device holds a display reference of an earlier detection
\* (ddc.c:219-221), peers know the devices of the map and no other
\* (ddc.c:163-168, 229), and an emulated brightness belongs to an emulated
\* device (ddc.c:138-142).
THEOREM DevicesCurrent ==
  Spec => [](DrefsFresh /\ ObjectsKnown /\ BrightnessOwned)
<1>1. Inv => DrefsFresh
  BY DEF Inv, Current, DrefsFresh
<1>2. Inv => ObjectsKnown /\ BrightnessOwned
  BY DEF Inv
<1> QED
  BY <1>1, <1>2, MonitorsInv, PTL

-----------------------------------------------------------------------------

\* Before the monitor of uevents is open there is no detection but the first.
Monitored == pending \in Nat /\ (curr_cookie > 0 => monitoring)

\* Once uevents are handled and nothing is missed, exactly the monitors that
\* are plugged are known, whatever was missed before (backlight2.c:95-96).
THEOREM PresentKnown == Spec => []KnowsPresent
<1>1. Init => Monitored /\ KnowsPresent
  BY DEF Init, Monitored, KnowsPresent
<1>2. ((present \subseteq Monitors /\ Inv) /\ Monitored /\ KnowsPresent)
        /\ [Next]_vars => (Monitored /\ KnowsPresent)'
  <2> SUFFICES ASSUME present \subseteq Monitors, Inv, Monitored, KnowsPresent,
                      [Next]_vars
               PROVE  Monitored' /\ KnowsPresent'
    OBVIOUS
  <2>1. CASE Receive
    <3> DEFINE new == curr_cookie'
    <3>1. /\ new = curr_cookie + 1 /\ new \in 0..MaxCookie /\ new > 0
          /\ curr_cookie \in Nat /\ present' = present /\ pending' \in Nat
      BY <2>1, MonitorsAssumption DEF Inv, Cookies, Receive, Monitored
    <3>10. monitoring'
      BY <2>1, Zenon DEF Receive
    <3>2. PICK e \in Detections :
            /\ complete' = Complete(e)
            /\ \E loaded \in Loads(bls, new, e[1], e[2]) :
                 bls' = [i \in Ids |->
                           IF i \in {j \in Ids : /\ loaded[j] # Absent
                                                 /\ Stale(loaded[j], new)}
                             THEN Absent ELSE loaded[i]]
      BY <2>1 DEF Receive
    <3>3. PICK loaded \in Loads(bls, new, e[1], e[2]) :
            bls' = [i \in Ids |->
                      IF i \in {j \in Ids : /\ loaded[j] # Absent
                                            /\ Stale(loaded[j], new)}
                        THEN Absent ELSE loaded[i]]
      BY <3>2
    <3>4. e[1] \in SUBSET Monitors /\ e[2] \in SUBSET e[1]
      BY DetectionsLemma
    <3>5. Merged(bls, new, e[1], e[2], loaded)
      <4> HIDE DEF new
      <4> QED
        BY <3>1, <3>3, <3>4, LoadsLemma DEF Inv, Filed
    <3> HIDE DEF new
    <3>6. Known' = Found(e[1], e[2]) \cap Ids
      <4>1. ASSUME NEW i \in Ids
            PROVE  bls'[i] # Absent <=> i \in Found(e[1], e[2])
        <5>1. CASE i \in Found(e[1], e[2])
          BY <3>3, <3>5, <5>1 DEF Merged, Stale
        <5>2. CASE i \notin Found(e[1], e[2])
          <6>1. loaded[i] = bls[i]
            BY <3>5, <5>2 DEF Merged
          <6>2. bls[i] # Absent => bls[i].cookie # new
            BY <3>1 DEF Inv, Current, Known
          <6> QED
            BY <3>3, <5>2, <6>1, <6>2 DEF Stale
        <5> QED
          BY <5>1, <5>2
      <4> QED
        BY <4>1 DEF Known
    <3>7. Found(e[1], e[2]) \subseteq Ids
      BY <3>4, MonitorsAssumption DEF Found, IdOf
    <3>8. complete' => e[1] = present /\ e[2] = present \ Mute
      <4> SUFFICES ASSUME complete' PROVE e = <<present, present \ Mute>>
        OBVIOUS
      <4>1. Complete(e)
        BY <3>2, Zenon
      <4> QED
        BY <4>1 DEF Complete
    <3>9. complete' =>
            Found(e[1], e[2]) = UNION {IdOf(m, m \notin Mute) : m \in present}
      <4> SUFFICES ASSUME complete'
                   PROVE  {IdOf(m, m \in e[2]) : m \in e[1]}
                            = {IdOf(m, m \notin Mute) : m \in present}
        BY DEF Found
      <4> QED
        BY <3>8
    <3> QED
      BY <3>1, <3>6, <3>7, <3>9, <3>10 DEF Monitored, KnowsPresent
  <2>2. ASSUME NEW m \in Monitors, Hotplug(m)
        PROVE  Monitored' /\ KnowsPresent'
    <3>1. CASE monitoring
      BY <2>2, <3>1 DEF Hotplug, Monitored, KnowsPresent
    <3>2. CASE ~monitoring
      BY <2>2, <3>2 DEF Hotplug, Monitored, KnowsPresent
    <3> QED
      BY <3>1, <3>2
  <2>3. CASE GetMonitor
    BY <2>3 DEF GetMonitor, Monitored, KnowsPresent, Known
  <2>4. ASSUME NEW i \in Ids, NEW value \in Levels, Set(i, value)
        PROVE  Monitored' /\ KnowsPresent'
    BY <2>4 DEF Set, Monitored, KnowsPresent, Known
  <2>5. CASE UNCHANGED vars
    BY <2>5 DEF vars, Monitored, KnowsPresent, Known
  <2> QED
    BY <2>1, <2>2, <2>3, <2>4, <2>5 DEF Next
<1> QED
  BY <1>1, <1>2, MonitorsInv, PTL DEF Spec
=============================================================================
