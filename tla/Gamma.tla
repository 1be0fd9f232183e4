------------------------------- MODULE Gamma -------------------------------
(***************************************************************************)
(* The Gamma module (gamma.c) with what its plugins answer                 *)
(* (gamma_plugins/*.c), on one display that peers may call by two names.   *)
(*                                                                         *)
(* Set starts a transition of the display to a temperature: a client, kept *)
(* under a name, with a one-shot timer that is rearmed until the display   *)
(* has taken the target.  Get asks the client if there is one, else the    *)
(* display.  Emulated backlight (set_gamma_brightness) rewrites the ramps  *)
(* at the current temperature.  Temperatures and steps are unsigned: they  *)
(* wrap at Modulus.                                                        *)
(***************************************************************************)
EXTENDS Integers

CONSTANTS Empty, Card,  \* the empty name, and the proper one of the display
          Setups,      \* what the display may be: its plugin and its names
          Modulus,     \* 2^32 in the code (width bound)
          MinTemp, MaxTemp,  \* 1000 and 10000 in the code
          Requests,    \* temperatures that peers ask for
          Steps,       \* smooth steps that peers ask for
          Seen         \* what get_temp may make of the ramps of a temperature:
                       \* it rounds, and brightness rounds them before

Names == {Empty, Card}
Plugins == {"wl", "drm", "xorg", "blank"}   \* blank: X with no output
Nobody == "nobody"
Kept == "kept"

ASSUME GammaAssumption ==
  /\ Empty # Card /\ {Nobody, Kept} \cap Names = {}
  /\ Setups \subseteq [plugin : Plugins, names : SUBSET Names]
  /\ Modulus \in Nat /\ MinTemp \in Nat \ {0} /\ MaxTemp \in Nat
  /\ MinTemp <= MaxTemp /\ MaxTemp < Modulus - 1
  /\ Requests \subseteq Int /\ Steps \subseteq 0..(Modulus - 1)
  /\ Seen \in [0..(Modulus - 1) -> SUBSET (MinTemp..MaxTemp)]

VARIABLES setup,    \* the plugin of the display and the names that reach it
          client,   \* the gamma_client under each name, or NoClient
          applied,  \* temperature of the ramps
          told,     \* temperature in the last Changed signal
          willing,  \* does it take new ramps (drmSetMaster succeeds)?
          holder,   \* wl: the client whose data holds its outputs, or Kept
          not_first_time,  \* wl: was that data handed to a second client?
          pushed,   \* wl: times it was put on the stack and registered
          newcomer, \* wl: is there an output without a gamma table?
          status,   \* ok, dead, or clash: a client without its entry
          misread   \* history: do the ramps have a temperature that could not
                    \* be read, since the last tick?

wl   == <<holder, not_first_time, pushed, newcomer>>
vars == <<setup, client, applied, told, willing, wl, status, misread>>

plugin == setup.plugin

Temps == MinTemp..MaxTemp
Word == 0..(Modulus - 1)
Wrap(n) == n % Modulus

\* A step of 0 stands for is_smooth = false, `waits' for smooth_wait > 0.
Client == [live : BOOLEAN, target : Temps \cup {0},
           current : Word, step : Word, waits : BOOLEAN,
           armed : BOOLEAN]
NoClient == [live |-> FALSE, target |-> 0, current |-> 0, step |-> 0,
             waits |-> FALSE, armed |-> FALSE]

TypeOK ==
  /\ setup \in Setups
  /\ client \in [Names -> Client]
  /\ applied \in Word /\ told \in Word
  /\ willing \in BOOLEAN
  /\ holder \in Names \cup {Nobody, Kept}
  /\ not_first_time \in BOOLEAN /\ pushed \in Nat /\ newcomer \in BOOLEAN
  /\ status \in {"ok", "dead", "clash"} /\ misread \in BOOLEAN

Init ==
  /\ setup \in Setups
  /\ client = [name \in Names |-> NoClient]
  /\ applied = MaxTemp /\ told = applied
  /\ willing = TRUE
  /\ holder = Nobody /\ not_first_time = FALSE /\ pushed = 0
  /\ newcomer = FALSE /\ status = "ok" /\ misread = FALSE

\* plugin->get: the wlroots plugin cannot read the ramps and answers 0, the
\* others read those of the first connected output and answer -1 without one;
\* DRM also does when the kernel does not give it the ramps.
PluginGet ==
  CASE plugin = "wl" -> {0}
    [] plugin = "blank" -> {Wrap(-1)}
    [] plugin = "drm" -> Seen[applied] \cup {Wrap(-1)}
    [] OTHER -> Seen[applied]

-----------------------------------------------------------------------------
(* The plugins *)

\* The name a client is filed under: drm_open_card stores the path of the
\* default card in the client, the other plugins leave its name alone.
Filed(name) == IF plugin = "drm" THEN Card ELSE name

\* validate: a compositor lets one client hold the gamma controls of its
\* outputs; the data that is on the stack is shared.
Validates(name) ==
  /\ name \in setup.names
  /\ plugin = "wl" => holder \in {Nobody, Kept}

\* What validate leaves, for a client that lives on under `name', as data that
\* is kept, or not at all.
Validated(name) ==
  /\ holder' = IF plugin = "wl" /\ holder = Nobody THEN name ELSE holder
  /\ not_first_time' = (not_first_time \/ holder = Kept)

\* plugin->set at temp, of data that may be on the stack already; an output
\* that came later has no gamma control, which ends the daemon.
Wrote(temp) ==
  IF plugin = "wl"
    THEN /\ status' = IF newcomer THEN "dead" ELSE status
         /\ pushed' = IF not_first_time' THEN pushed ELSE pushed + 1
         /\ applied' = temp
    ELSE /\ applied' = IF willing THEN temp ELSE applied
         /\ UNCHANGED <<pushed, status>>

-----------------------------------------------------------------------------

InRange(temp) == temp \in Temps

\* start_client: smooth transitions are off on wlroots.
SmoothAlways(step, waits) == IF waits THEN step ELSE 0
Smooth(step, waits) == IF waits /\ plugin # "wl" THEN step ELSE 0

Started(temp, step, waits, current) ==
  [live |-> TRUE, target |-> temp, current |-> current,
   step |-> Smooth(step, waits), waits |-> waits, armed |-> TRUE]

\* method_setgamma, authorized, of a name with a client in transition: it is
\* redirected, whichever peer asks, and its timer is armed at once.
Redirect(name, temp, step, waits) ==
  /\ status = "ok" /\ InRange(temp) /\ client[name].live
  /\ client' = [client EXCEPT ![name] =
                  Started(temp, step, waits, client[name].current)]
  /\ UNCHANGED <<setup, applied, told, willing, wl, status, misread>>

\* The same of another name: a new client.  Filed over one in transition, it
\* leaves that without its entry, or freed with its timer armed; what follows
\* is not modelled.
Set(name, temp, step, waits) ==
  /\ status = "ok" /\ InRange(temp) /\ ~client[name].live
  /\ Validates(name) /\ Validated(name)
  /\ IF client[Filed(name)].live
       THEN status' = "clash" /\ UNCHANGED client
       ELSE /\ \E current \in PluginGet :
                 client' = [client EXCEPT ![Filed(name)] =
                              Started(temp, step, waits, current)]
            /\ UNCHANGED status
  /\ UNCHANGED <<setup, applied, told, willing, pushed, newcomer, misread>>

\* The temperature that the timer of client c moves to.
NextTempUnclamped(c) ==
  IF c.step = 0 THEN c.target
  ELSE IF c.target < c.current THEN Wrap(c.current - c.step)
  ELSE Wrap(c.current + c.step)

NextTemp(c) ==
  IF c.step = 0 THEN c.target
  ELSE IF c.target < c.current
    THEN IF Wrap(c.current - c.step) < c.target THEN c.target
         ELSE Wrap(c.current - c.step)
    ELSE IF Wrap(c.current + c.step) > c.target THEN c.target
         ELSE Wrap(c.current + c.step)

\* A client is done once the display took the target, else its timer is
\* rearmed, which a wait of 0 disarms.
DoneAnyway(c) == c.current = c.target
Done(c) == (plugin = "wl" \/ willing) /\ c.current = c.target

RearmedIfSmooth(c) == c.step > 0
Rearmed(c) == c.waits

\* receive: move, signal, apply; done once the display has the target, else
\* the timer is rearmed, which a wait of 0 disarms.
Tick(name) ==
  /\ status = "ok" /\ client[name].live /\ client[name].armed
  /\ LET next == NextTemp(client[name])
         moved == [client[name] EXCEPT !.current = next]
     IN  /\ told' = next /\ misread' = FALSE
         /\ UNCHANGED not_first_time
         /\ Wrote(next)
         /\ client' = [client EXCEPT ![name] =
              IF Done(moved) THEN NoClient
              ELSE [moved EXCEPT !.armed = Rearmed(moved)]]
  /\ holder' = IF plugin = "wl" THEN Kept ELSE holder
  /\ UNCHANGED <<setup, willing, newcomer>>

\* method_getgamma, of a name without a client: one is made, read and freed.
Get(name) ==
  /\ status = "ok" /\ ~client[name].live
  /\ Validates(name) /\ Validated(Nobody)
  /\ UNCHANGED <<setup, client, applied, told, willing, pushed, newcomer,
                 status, misread>>

\* set_gamma_brightness, on the display of the empty name: the ramps are
\* written at the temperature that a fresh client reads.
Dim ==
  /\ status = "ok" /\ Validates(Empty)
  /\ Validated(Kept)
  /\ \E temp \in PluginGet :
       /\ Wrote(temp)
       /\ misread' = (misread \/ (willing /\ temp \notin Temps))
  /\ UNCHANGED <<setup, client, told, willing, newcomer>>

\* The environment: another process takes and leaves the DRM master; X and
\* wlroots report no failure.
Switch ==
  /\ status = "ok" /\ plugin = "drm"
  /\ willing' = ~willing
  /\ UNCHANGED <<setup, client, applied, told, wl, status, misread>>

\* A monitor is plugged: its output joins those of the data that listens to
\* the compositor (registry_handle_global), and nothing else is done.
OutputComes ==
  /\ status = "ok" /\ holder # Nobody /\ ~newcomer
  /\ newcomer' = TRUE
  /\ UNCHANGED <<setup, client, applied, told, willing, holder, not_first_time,
                 pushed, status, misread>>

Ticks == \E name \in Names : Tick(name)

Next ==
  \/ Ticks
  \/ \E name \in Names : Get(name)
  \/ \E name \in Names, temp \in Requests, step \in Steps, waits \in BOOLEAN :
       Redirect(name, temp, step, waits) \/ Set(name, temp, step, waits)
  \/ Dim
  \/ Switch
  \/ OutputComes

Spec == Init /\ [][Next]_vars
FairSpec == Spec /\ \A name \in Names : WF_vars(Tick(name))

-----------------------------------------------------------------------------
(* Properties *)

\* A sum that wraps gives a temperature out of range (gamma.c:83-87): the
\* properties are about the steps that cannot wrap.
Proper(c) == c.step <= MinTemp /\ c.step < Modulus - MaxTemp

\* Temperatures that reading the ramps back and writing them again never leaves.
Settled == {S \in SUBSET Temps : \A t \in S : Seen[t] \subseteq S}

\* Without a transition, the display has the temperature that the last signal
\* told, or what changes of its emulated backlight made of just that, also after
\* failed, redirected and overlapping transitions: a client leaves the map only
\* when the display took what was signalled (gamma.c:97-102).  A change of the
\* emulated backlight that cannot read the ramps spoils them (gamma.c:268).
SignalledApplied ==
  /\ plugin \in {"drm", "xorg"} /\ ~misread
  /\ \A name \in Names : ~client[name].live
  =>
    \/ applied = told
    \/ \A S \in Settled : Seen[told] \subseteq S => applied \in S

\* A transition never passes its target nor turns away from it, although the
\* target may be changed while it runs, by a peer that used another name too.
TowardTarget ==
  [][\A name \in Names :
       LET c == client[name]
           next == client'[name]
       IN  c.live /\ next.live /\ Proper(c) /\ next.current # c.current =>
             \/ c.current <= next.current /\ next.current <= c.target
             \/ c.current >= next.current /\ next.current >= c.target]_vars

\* Once calls cease and the display takes its ramps, every transition that has
\* a wait, and a step that does not wrap, ends: failures are retried
\* (gamma.c:103-108).
TransitionsEnd ==
  (<>[][Ticks]_vars /\ <>[](willing /\ status = "ok")) =>
    <>[](\A name \in Names :
           client[name].live => ~client[name].waits \/ ~Proper(client[name]))

\* The wayland connection is registered with the event loop, and its data put
\* on the stack, once, although the data outlives its client, is shared by
\* clients of both names and by emulated backlight, and set runs before and
\* after that (gamma_plugins/wl.c:215-219).
RegisteredOnce == pushed <= 1 /\ (plugin = "wl" => (pushed = 1 <=> holder = Kept))
=============================================================================
