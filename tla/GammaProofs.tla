---------------------------- MODULE GammaProofs ----------------------------
(***************************************************************************)
(* Proofs about Gamma, for any limits, steps, requests and displays.       *)
(***************************************************************************)
EXTENDS Gamma, TLAPS

\* A client in transition has a temperature to go to.
Targeted == \A n \in Names : client[n].live => client[n].target \in Temps

\* The data of the wlroots plugin and its clients: it is on the stack once it
\* has been kept, and a client that does not hold it came after that.  None
\* is smooth, so that each has one tick.
Stack ==
  /\ plugin # "wl" => pushed = 0
  /\ plugin = "wl" =>
       /\ holder # Kept => pushed = 0 /\ ~not_first_time
       /\ holder = Kept => pushed = 1
       /\ \A n \in Names :
            client[n].live =>
              /\ client[n].step = 0
              /\ holder = n \/ (holder = Kept /\ not_first_time)

Inv == TypeOK /\ Targeted /\ Stack

LEMMA WrapLemma ==
  ASSUME NEW n \in Int
  PROVE  /\ Wrap(n) \in Word
         /\ n \in Word => Wrap(n) = n
<1>1. Modulus \in Nat /\ Modulus > 0
  BY GammaAssumption
<1> QED
  BY <1>1 DEF Wrap, Word

LEMMA NamesLemma ==
  /\ Temps \subseteq Word /\ 0 \in Word /\ 0 \notin Temps
  /\ Nobody # Kept /\ Nobody \notin Names /\ Kept \notin Names
  /\ Empty \in Names
<1>1. Temps \subseteq Word /\ 0 \in Word /\ 0 \notin Temps
  BY GammaAssumption DEF Temps, Word
<1>2. Nobody # Kept /\ Nobody \notin Names /\ Kept \notin Names /\ Empty \in Names
  BY GammaAssumption DEF Nobody, Kept, Names
<1> QED
  BY <1>1, <1>2

LEMMA GetLemma == TypeOK => PluginGet \subseteq Word
<1> SUFFICES ASSUME TypeOK PROVE PluginGet \subseteq Word
  OBVIOUS
<1>1. Wrap(-1) \in Word
  BY WrapLemma
<1>2. Seen[applied] \subseteq Temps
  BY GammaAssumption DEF TypeOK, Word, Temps
<1> QED
  BY <1>1, <1>2, NamesLemma DEF PluginGet

\* What Started makes is a client, of a step that a peer asks for.
LEMMA StartedLemma ==
  ASSUME NEW temp \in Requests, NEW step \in Steps, NEW waits \in BOOLEAN,
         NEW current \in Word, InRange(temp)
  PROVE  LET c == Started(temp, step, waits, current)
         IN  /\ c \in Client /\ c.live /\ c.target = temp /\ temp \in Temps
             /\ c.current = current
             /\ plugin = "wl" => c.step = 0
<1>1. temp \in Temps /\ step \in Word
  BY GammaAssumption DEF InRange, Word
<1>2. Smooth(step, waits) \in Word /\ (plugin = "wl" => Smooth(step, waits) = 0)
  BY <1>1, NamesLemma DEF Smooth
<1> QED
  BY <1>1, <1>2 DEF Started, Client

LEMMA NextTempLemma ==
  ASSUME NEW c \in Client, c.target \in Temps
  PROVE  NextTemp(c) \in Word
<1>1. c.current \in Int /\ c.step \in Int
  <2>1. c.current \in Word /\ c.step \in Word
    BY DEF Client
  <2>2. Word \subseteq Int
    BY GammaAssumption DEF Word
  <2> QED
    BY <2>1, <2>2
<1>2. Wrap(c.current - c.step) \in Word /\ Wrap(c.current + c.step) \in Word
  BY <1>1, WrapLemma
<1>3. c.target \in Word
  BY NamesLemma
<1> DEFINE less == Wrap(c.current - c.step)
           more == Wrap(c.current + c.step)
<1>4. NextTemp(c) \in {c.target, less, more}
  BY Zenon DEF NextTemp
<1> QED
  BY <1>2, <1>3, <1>4

\* A step that cannot wrap moves the current temperature towards the target,
\* and not past it.
LEMMA TowardLemma ==
  ASSUME NEW c \in Client, c.target \in Temps, Proper(c)
  PROVE  \/ c.current <= NextTemp(c) /\ NextTemp(c) <= c.target
         \/ c.current >= NextTemp(c) /\ NextTemp(c) >= c.target
<1>1. /\ Modulus \in Nat /\ MinTemp \in Nat /\ MaxTemp \in Nat
      /\ MaxTemp < Modulus /\ c.target \in MinTemp..MaxTemp
      /\ c.current \in 0..(Modulus - 1) /\ c.step \in 0..(Modulus - 1)
      /\ c.step <= MinTemp /\ c.step < Modulus - MaxTemp
  BY GammaAssumption DEF Client, Word, Temps, Proper
<1>2. CASE c.step = 0
  BY <1>1, <1>2 DEF NextTemp
<1>3. CASE c.step # 0 /\ c.target < c.current
  <2>1. c.current - c.step \in Word
    BY <1>1, <1>3 DEF Word
  <2>2. Wrap(c.current - c.step) = c.current - c.step
    BY <1>1, <2>1, WrapLemma
  <2> QED
    BY <1>1, <1>3, <2>2 DEF NextTemp
<1>4. CASE c.step # 0 /\ c.target >= c.current
  <2>1. c.current + c.step \in Word
    BY <1>1, <1>4 DEF Word
  <2>2. Wrap(c.current + c.step) = c.current + c.step
    BY <1>1, <2>1, WrapLemma
  <2> QED
    BY <1>1, <1>4, <2>2 DEF NextTemp
<1> QED
  BY <1>1, <1>2, <1>3, <1>4

-----------------------------------------------------------------------------

LEMMA SetInv ==
  ASSUME Inv, NEW n \in Names, NEW temp \in Requests, NEW step \in Steps,
         NEW waits \in BOOLEAN, Set(n, temp, step, waits)
  PROVE  Inv'
<1>0. PICK current \in Word :
        ~client[Filed(n)].live =>
          client' = [client EXCEPT ![Filed(n)] =
                       Started(temp, step, waits, current)]
  BY GetLemma, NamesLemma DEF Set, Inv
<1> DEFINE c == Started(temp, step, waits, current)
<1>1. /\ c \in Client /\ c.live /\ c.target \in Temps
      /\ plugin = "wl" => c.step = 0
  BY StartedLemma DEF Set
<1>2. /\ ~client[n].live /\ Validates(n) /\ Validated(n)
      /\ UNCHANGED <<setup, applied, told, willing, pushed, newcomer, misread>>
      /\ IF client[Filed(n)].live
           THEN status' = "clash" /\ UNCHANGED client
           ELSE client' = [client EXCEPT ![Filed(n)] = c] /\ UNCHANGED status
  BY <1>0 DEF Set
<1> HIDE DEF c
<1>3. Filed(n) \in Names /\ (plugin # "drm" => Filed(n) = n)
  BY DEF Filed, Names
<1>4. holder' \in Names \cup {Nobody, Kept} /\ not_first_time' \in BOOLEAN
  BY <1>2 DEF Inv, TypeOK, Validated
<1>5. TypeOK'
  BY <1>1, <1>2, <1>3, <1>4 DEF Inv, TypeOK
<1>6. Targeted'
  BY <1>1, <1>2, <1>3 DEF Inv, TypeOK, Targeted
<1>7. Stack'
  <2>1. CASE plugin # "wl"
    BY <1>2, <2>1 DEF Inv, Stack, plugin
  <2>2. CASE plugin = "wl" /\ holder = Nobody
    <3>1. pushed = 0 /\ ~not_first_time
      BY <2>2, NamesLemma DEF Inv, Stack
    <3>2. holder' = n /\ ~not_first_time' /\ pushed' = 0 /\ n # Kept
      BY <1>2, <2>2, <3>1, NamesLemma DEF Validated
    <3>3. \A m \in Names : ~client[m].live
      BY <2>2, NamesLemma DEF Inv, Stack
    <3> QED
      BY <1>1, <1>2, <1>3, <2>2, <3>2, <3>3, NamesLemma
      DEF Inv, TypeOK, Stack, plugin
  <2>3. CASE plugin = "wl" /\ holder = Kept
    <3>1. holder' = Kept /\ not_first_time' /\ pushed' = 1
      BY <1>2, <2>3, NamesLemma DEF Validated, Inv, Stack
    <3> QED
      BY <1>1, <1>2, <1>3, <2>3, <3>1 DEF Inv, TypeOK, Stack, plugin
  <2> QED
    BY <1>2, <2>1, <2>2, <2>3 DEF Validates
<1> QED
  BY <1>5, <1>6, <1>7 DEF Inv

LEMMA TickInv ==
  ASSUME Inv, NEW n \in Names, Tick(n)
  PROVE  Inv'
<1> DEFINE next == NextTemp(client[n])
           moved == [client[n] EXCEPT !.current = next]
           c == IF Done(moved) THEN NoClient
                ELSE [moved EXCEPT !.armed = Rearmed(moved)]
<1>1. client[n] \in Client /\ client[n].live /\ client[n].target \in Temps
  BY DEF Inv, TypeOK, Targeted, Tick
<1>2. next \in Word
  BY <1>1, NextTempLemma
<1>3. /\ Wrote(next) /\ client' = [client EXCEPT ![n] = c] /\ told' = next
      /\ holder' = IF plugin = "wl" THEN Kept ELSE holder
      /\ misread' = FALSE
      /\ UNCHANGED <<setup, willing, newcomer, not_first_time>>
  BY DEF Tick
<1>4. /\ c \in Client /\ (c.live => c.target \in Temps)
      /\ plugin = "wl" => ~c.live
  <2>1. moved \in Client /\ moved.target \in Temps /\ moved.current = next
    BY <1>1, <1>2 DEF Client
  <2>2. NoClient \in Client /\ ~NoClient.live
    BY NamesLemma DEF NoClient, Client
  <2>3. plugin = "wl" => Done(moved)
    <3> SUFFICES ASSUME plugin = "wl" PROVE moved.current = moved.target
      BY DEF Done
    <3>1. client[n].step = 0
      BY <1>1 DEF Inv, Stack
    <3> QED
      BY <1>1, <3>1 DEF NextTemp, Client
  <2>4. [moved EXCEPT !.armed = Rearmed(moved)] \in Client
    BY <2>1 DEF Client, Rearmed
  <2>5. [moved EXCEPT !.armed = Rearmed(moved)].target = moved.target
    BY <2>1 DEF Client
  <2> QED
    BY <2>1, <2>2, <2>3, <2>4, <2>5
<1> HIDE DEF c, next
<1>5. applied' \in Word /\ status' \in {"ok", "dead", "clash"} /\ pushed' \in Nat
  BY <1>2, <1>3 DEF Wrote, Inv, TypeOK
<1>6. TypeOK'
  BY <1>2, <1>3, <1>4, <1>5 DEF Inv, TypeOK
<1>7. Targeted'
  BY <1>3, <1>4 DEF Inv, TypeOK, Targeted
<1>8. Stack'
  <2>1. CASE plugin # "wl"
    BY <1>3, <2>1 DEF Wrote, Inv, Stack, plugin
  <2>2. CASE plugin = "wl"
    <3>1. holder = n \/ (holder = Kept /\ not_first_time)
      BY <1>1, <2>2 DEF Inv, Stack
    <3>2. pushed' = 1 /\ holder' = Kept
      <4>1. CASE holder = n
        <5>1. holder # Kept
          BY <4>1, NamesLemma
        <5>2. pushed = 0 /\ ~not_first_time
          BY <2>2, <5>1 DEF Inv, Stack
        <5> QED
          BY <1>3, <2>2, <5>2 DEF Wrote
      <4>2. CASE holder = Kept /\ not_first_time
        <5>1. pushed = 1
          BY <2>2, <4>2 DEF Inv, Stack
        <5> QED
          BY <1>3, <2>2, <4>2, <5>1 DEF Wrote
      <4> QED
        BY <3>1, <4>1, <4>2
    <3>3. \A m \in Names : client'[m].live =>
             m # n /\ client'[m] = client[m] /\ client[m].live
      BY <1>3, <1>4, <2>2 DEF Inv, TypeOK
    <3>4. \A m \in Names : client'[m].live => not_first_time
      BY <2>2, <3>1, <3>3 DEF Inv, Stack
    <3> QED
      BY <1>3, <2>2, <3>2, <3>3, <3>4 DEF Inv, Stack, plugin
  <2> QED
    BY <2>1, <2>2
<1> QED
  BY <1>6, <1>7, <1>8 DEF Inv

LEMMA DimInv ==
  ASSUME Inv, Dim
  PROVE  Inv'
<1>1. /\ Validates(Empty) /\ Validated(Kept)
      /\ UNCHANGED <<setup, client, told, willing, newcomer>>
  BY DEF Dim
<1>2. PICK temp \in Word : /\ Wrote(temp)
                          /\ misread' = (misread \/ (willing /\ temp \notin Temps))
  BY GetLemma DEF Dim, Inv
<1>3. holder' \in Names \cup {Nobody, Kept} /\ not_first_time' \in BOOLEAN
  BY <1>1 DEF Inv, TypeOK, Validated
<1>4. applied' \in Word /\ status' \in {"ok", "dead", "clash"} /\ pushed' \in Nat
  BY <1>2 DEF Wrote, Inv, TypeOK
<1>5. TypeOK' /\ Targeted'
  BY <1>1, <1>2, <1>3, <1>4 DEF Inv, TypeOK, Targeted
<1>6. Stack'
  <2>1. CASE plugin # "wl"
    BY <1>1, <1>2, <2>1 DEF Wrote, Inv, Stack, plugin
  <2>2. CASE plugin = "wl" /\ holder = Nobody
    <3>1. pushed = 0 /\ ~not_first_time /\ holder # Kept
      BY <2>2, NamesLemma DEF Inv, Stack
    <3>2. holder' = Kept /\ ~not_first_time' /\ pushed' = 1
      <4>1. holder' = Kept
        BY <1>1, <2>2 DEF Validated
      <4>2. ~not_first_time'
        BY <1>1, <3>1, Zenon DEF Validated
      <4> QED
        BY <1>2, <2>2, <3>1, <4>1, <4>2 DEF Wrote
    <3>3. \A m \in Names : ~client[m].live
      BY <2>2, NamesLemma DEF Inv, Stack
    <3> QED
      BY <1>1, <2>2, <3>2, <3>3 DEF Inv, Stack, plugin
  <2>3. CASE plugin = "wl" /\ holder = Kept
    <3>1. holder' = Kept /\ not_first_time' /\ pushed' = 1
      BY <1>1, <1>2, <2>3, NamesLemma DEF Validated, Wrote, Inv, Stack
    <3> QED
      BY <1>1, <2>3, <3>1 DEF Inv, Stack, plugin
  <2> QED
    BY <1>1, <2>1, <2>2, <2>3 DEF Validates
<1> QED
  BY <1>5, <1>6 DEF Inv

\* Temperatures stay words, targets stay in the range that gamma.c:313 checks,
\* and the data of the wlroots plugin is where the holder says.
THEOREM GammaInv == Spec => []Inv
<1>1. Init => Inv
  <2> SUFFICES ASSUME Init PROVE Inv
    OBVIOUS
  <2>1. NoClient \in Client /\ ~NoClient.live
    BY NamesLemma DEF NoClient, Client
  <2>2. TypeOK
    <3>1. MaxTemp \in Word
      BY GammaAssumption DEF Word
    <3>2. client \in [Names -> Client]
      BY <2>1 DEF Init
    <3> QED
      BY <3>1, <3>2 DEF Init, TypeOK
  <2>3. \A n \in Names : ~client[n].live
    BY <2>1 DEF Init
  <2>4. Targeted /\ Stack
    BY <2>3, NamesLemma DEF Init, Targeted, Stack
  <2> QED
    BY <2>2, <2>4 DEF Inv
<1>2. Inv /\ [Next]_vars => Inv'
  <2> SUFFICES ASSUME Inv, [Next]_vars PROVE Inv'
    OBVIOUS
  <2>1. CASE Ticks
    BY <2>1, TickInv DEF Ticks
  <2>2. ASSUME NEW n \in Names, NEW temp \in Requests, NEW step \in Steps,
               NEW waits \in BOOLEAN, Redirect(n, temp, step, waits)
        PROVE  Inv'
    <3> DEFINE c == Started(temp, step, waits, client[n].current)
    <3>1. client[n] \in Client /\ client[n].current \in Word
      BY DEF Inv, TypeOK, Client
    <3>2. /\ c \in Client /\ c.live /\ c.target \in Temps
          /\ plugin = "wl" => c.step = 0
      BY <3>1, StartedLemma, <2>2 DEF Redirect
    <3>3. /\ client' = [client EXCEPT ![n] = c] /\ client[n].live
          /\ UNCHANGED <<setup, applied, told, willing, wl, status, misread>>
      BY <2>2 DEF Redirect
    <3> HIDE DEF c
    <3>4. TypeOK'
      BY <3>2, <3>3 DEF Inv, TypeOK, wl
    <3>5. Targeted' /\ Stack'
      BY <3>2, <3>3 DEF Inv, TypeOK, Targeted, Stack, plugin, wl
    <3> QED
      BY <3>4, <3>5 DEF Inv
  <2>3. ASSUME NEW n \in Names, Get(n)
        PROVE  Inv'
    <3>1. /\ Validates(n) /\ Validated(Nobody)
          /\ UNCHANGED <<setup, client, applied, told, willing, pushed,
                         newcomer, status, misread>>
      BY <2>3 DEF Get
    <3>2. holder' = holder /\ not_first_time' \in BOOLEAN
      BY <3>1 DEF Inv, TypeOK, Validated
    <3>3. TypeOK' /\ Targeted'
      BY <3>1, <3>2 DEF Inv, TypeOK, Targeted
    <3>4. Stack'
      <4>1. CASE holder = Kept
        <5>1. not_first_time'
          BY <3>1, <4>1, Zenon DEF Validated
        <5> QED
          BY <3>1, <3>2, <4>1, <5>1 DEF Inv, Stack, plugin
      <4>2. CASE holder # Kept
        <5>1. not_first_time' = not_first_time
          BY <3>1, <4>2 DEF Inv, TypeOK, Validated
        <5> QED
          BY <3>1, <3>2, <5>1 DEF Inv, Stack, plugin
      <4> QED
        BY <4>1, <4>2
    <3> QED
      BY <3>3, <3>4 DEF Inv
  <2>4. CASE Switch
    BY <2>4 DEF Switch, Inv, TypeOK, Targeted, Stack, plugin, wl
  <2>5. CASE OutputComes
    BY <2>5 DEF OutputComes, Inv, TypeOK, Targeted, Stack, plugin
  <2>6. CASE UNCHANGED vars
    BY <2>6 DEF vars, Inv, TypeOK, Targeted, Stack, plugin, wl
  <2> QED
    BY <2>1, <2>2, <2>3, <2>4, <2>5, <2>6, SetInv, DimInv DEF Next
<1> QED
  BY <1>1, <1>2, PTL DEF Spec

-----------------------------------------------------------------------------

\* The wayland connection is registered once, whoever uses the data and in
\* whatever order its clients come, tick and go (gamma_plugins/wl.c:215-219).
THEOREM Registered == Spec => []RegisteredOnce
<1>1. Inv => RegisteredOnce
  BY GammaAssumption DEF Inv, Stack, TypeOK, RegisteredOnce
<1> QED
  BY <1>1, GammaInv, PTL

\* The temperature of a transition whose step cannot wrap approaches the target
\* and does not pass it, whatever is requested meanwhile (gamma.c:78-96).
THEOREM Approaches == Spec => TowardTarget
<1> DEFINE Toward ==
      \A name \in Names :
        LET c == client[name]
            next == client'[name]
        IN  c.live /\ next.live /\ Proper(c) /\ next.current # c.current =>
              \/ c.current <= next.current /\ next.current <= c.target
              \/ c.current >= next.current /\ next.current >= c.target
<1>1. Inv /\ [Next]_vars => [Toward]_vars
  <2> SUFFICES ASSUME Inv, Next, NEW m \in Names, client[m].live,
                      client'[m].live, Proper(client[m]),
                      client'[m].current # client[m].current
               PROVE  LET c == client[m]
                          next == client'[m]
                      IN  \/ c.current <= next.current /\ next.current <= c.target
                          \/ c.current >= next.current /\ next.current >= c.target
    OBVIOUS
  <2>1. client[m] \in Client /\ client[m].target \in Temps
    BY DEF Inv, TypeOK, Targeted
  <2>2. ASSUME NEW n \in Names, Tick(n)
        PROVE  client'[m].current = NextTemp(client[m])
    <3> DEFINE moved == [client[n] EXCEPT !.current = NextTemp(client[n])]
    <3>1. client' = [client EXCEPT ![n] =
                       IF Done(moved) THEN NoClient
                       ELSE [moved EXCEPT !.armed = Rearmed(moved)]]
      BY <2>2 DEF Tick
    <3>2. m = n
      BY <3>1 DEF Inv, TypeOK
    <3>3. client'[m] = [moved EXCEPT !.armed = Rearmed(moved)]
      BY <3>1, <3>2 DEF Inv, TypeOK, NoClient
    <3> QED
      BY <2>1, <3>2, <3>3 DEF Client
  <2>3. ASSUME NEW n \in Names, NEW temp \in Requests, NEW step \in Steps,
               NEW waits \in BOOLEAN, Redirect(n, temp, step, waits)
        PROVE  FALSE
    <3>1. client' = [client EXCEPT ![n] =
                       Started(temp, step, waits, client[n].current)]
      BY <2>3 DEF Redirect
    <3> QED
      BY <3>1 DEF Inv, TypeOK, Started
  <2>4. ASSUME NEW n \in Names, NEW temp \in Requests, NEW step \in Steps,
               NEW waits \in BOOLEAN, Set(n, temp, step, waits)
        PROVE  FALSE
    <3>1. client'[m] = client[m]
      BY <2>4 DEF Set, Inv, TypeOK
    <3> QED
      BY <3>1
  <2>5. Dim \/ Switch \/ OutputComes \/ (\E n \in Names : Get(n)) =>
          client' = client
    BY DEF Dim, Switch, OutputComes, Get
  <2>6. client'[m].current = NextTemp(client[m])
    BY <2>2, <2>3, <2>4, <2>5 DEF Next, Ticks
  <2> QED
    BY <2>1, <2>6, TowardLemma
<1> QED
  BY <1>1, GammaInv, PTL DEF Spec, TowardTarget
-----------------------------------------------------------------------------

\* A transition ends only when the display took what was signalled
\* (gamma.c:97-102); emulated backlight writes again what it reads, so that no
\* settled set is left.
THEOREM Applied == Spec => []SignalledApplied
<1>1. Init => SignalledApplied
  BY DEF Init, SignalledApplied
<1>2. Inv /\ SignalledApplied /\ [Next]_vars => SignalledApplied'
  <2> SUFFICES ASSUME Inv, SignalledApplied, [Next]_vars,
                      plugin' \in {"drm", "xorg"}, ~misread',
                      \A m \in Names : ~client'[m].live
               PROVE  \/ applied' = told'
                      \/ \A S \in Settled :
                           Seen[told'] \subseteq S => applied' \in S
    BY DEF SignalledApplied
  <2> DEFINE Same == /\ plugin' = plugin /\ client' = client /\ told' = told
                     /\ ~misread
  <2>1. ASSUME NEW n \in Names, Tick(n)
        PROVE  applied' = told'
    <3> DEFINE next == NextTemp(client[n])
               moved == [client[n] EXCEPT !.current = next]
    <3>1. /\ Wrote(next) /\ told' = next /\ plugin' = plugin
          /\ client' = [client EXCEPT ![n] =
                          IF Done(moved) THEN NoClient
                          ELSE [moved EXCEPT !.armed = Rearmed(moved)]]
      BY <2>1 DEF Tick, plugin
    <3>2. client[n] \in Client /\ client[n].live
      BY <2>1 DEF Tick, Inv, TypeOK
    <3>3. [moved EXCEPT !.armed = Rearmed(moved)].live
      BY <3>2 DEF Client
    <3>4. Done(moved)
      BY <3>1, <3>3 DEF Inv, TypeOK
    <3>5. plugin # "wl" /\ willing
      BY <3>1, <3>4 DEF Done
    <3> QED
      BY <3>1, <3>5 DEF Wrote
  <2>2. ASSUME NEW n \in Names, NEW temp \in Requests, NEW step \in Steps,
               NEW waits \in BOOLEAN, Redirect(n, temp, step, waits)
        PROVE  FALSE
    <3>1. client' = [client EXCEPT ![n] =
                       Started(temp, step, waits, client[n].current)]
      BY <2>2 DEF Redirect
    <3> QED
      BY <3>1 DEF Inv, TypeOK, Started
  <2>3. ASSUME NEW n \in Names, NEW temp \in Requests, NEW step \in Steps,
               NEW waits \in BOOLEAN, Set(n, temp, step, waits)
        PROVE  FALSE
    <3>1. Filed(n) \in Names
      BY DEF Filed, Names
    <3>2. \/ client[Filed(n)].live /\ client' = client
          \/ \E current \in PluginGet :
               client' = [client EXCEPT ![Filed(n)] =
                            Started(temp, step, waits, current)]
      BY <2>3 DEF Set
    <3> QED
      BY <3>1, <3>2 DEF Inv, TypeOK, Started
  <2>4. CASE Same /\ applied' = applied
    BY <2>4 DEF SignalledApplied
  <2>5. CASE Dim
    <3>1. Same /\ plugin \in {"drm", "xorg"}
      BY <2>5 DEF Dim, plugin
    <3>2. \A temp \in PluginGet : temp \in Seen[applied] \/ temp = Wrap(-1)
      BY <3>1 DEF PluginGet
    <3>3. applied' \in Seen[applied] \/ applied' = applied
      <4>1. PICK temp \in PluginGet :
              Wrote(temp) /\ (temp \in Temps \/ ~willing)
        BY <2>5 DEF Dim
      <4>2. temp = Wrap(-1) => ~willing
        <5>1. Wrap(-1) = Modulus - 1
          BY GammaAssumption DEF Wrap
        <5> QED
          BY <4>1, <5>1, GammaAssumption DEF Temps
      <4> QED
        BY <3>1, <3>2, <4>1, <4>2 DEF Wrote
    <3>4. CASE applied' \in Seen[applied]
      <4>1. SUFFICES ASSUME NEW S \in Settled, Seen[told] \subseteq S
                     PROVE  applied' \in S
        BY <3>1
      <4>2. CASE applied = told
        BY <3>4, <4>1, <4>2
      <4>3. CASE applied \in S
        BY <3>4, <4>3 DEF Settled
      <4> QED
        BY <3>1, <4>1, <4>2, <4>3 DEF SignalledApplied
    <3> QED
      BY <3>1, <3>3, <3>4, <2>4
  <2>6. CASE Switch \/ OutputComes \/ \E n \in Names : Get(n)
    BY <2>4, <2>6 DEF Switch, OutputComes, Get, plugin
  <2>7. CASE UNCHANGED vars
    BY <2>4, <2>7 DEF vars, plugin
  <2> QED
    BY <2>1, <2>2, <2>3, <2>5, <2>6, <2>7 DEF Next, Ticks
<1> QED
  BY <1>1, <1>2, GammaInv, PTL DEF Spec
=============================================================================
