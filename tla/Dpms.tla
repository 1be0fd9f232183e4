-------------------------------- MODULE Dpms --------------------------------
(***************************************************************************)
(* The Dpms module (dpms.c), its plugins (dpms_plugins/*.c) and the cache  *)
(* of Wayland connections that they share (utils/wl_utils.c).              *)
(*                                                                         *)
(* A call goes to one plugin, or to each in turn until one does not say    *)
(* that it is the wrong one.  It is for the displays of the environment    *)
(* that it names, whoever sends it, and of its sender if it names none.    *)
(* Connections to compositors stay open for ever, by display name; each    *)
(* plugin leaves its last manager object, which it has destroyed, in a     *)
(* static variable.  Servers come and go between and during calls.         *)
(***************************************************************************)
EXTENDS Integers, Sequences, Functions

CONSTANTS Users,       \* owners of servers (XDG_RUNTIME_DIR, XAUTHORITY)
          XNames, WlNames, Cards,  \* displays of each kind
          Empty,       \* the empty display name
          DefaultWl, DefaultCard,  \* wayland-0, the first card of udev
          System,      \* what owns the cards
          XKinds, WlKinds, CardKinds,  \* what servers and cards offer
          Refusing,    \* cards that do not take the property
          Targets,     \* the levels that peers set
          MaxStarts,   \* starts of servers in all (bound)
          Absent       \* no entry

Plugins == <<"xorg", "wlr", "kwin", "drm">>
Features == {"dpms", "wlr", "kwin", "outputs", "screencopy"}

ASSUME NamesAssumption ==
  /\ DefaultWl \in WlNames /\ DefaultCard \in Cards
  /\ Empty \notin XNames \cup WlNames \cup Cards
  /\ XNames \cap WlNames = {} /\ Refusing \subseteq Cards
  /\ Cards \cap (XNames \cup WlNames) = {}
  /\ System \notin Users
  /\ XKinds \cup WlKinds \cup CardKinds \subseteq SUBSET Features
  /\ Targets \subseteq 0..3 /\ MaxStarts \in Nat

\* A screen is what one server or card drives: all its outputs.
Compositors == WlNames \X Users
Servers == (XNames \X Users) \cup Compositors
Screens == Servers \cup (Cards \X {System})
Levels == 0..3   \* 0 is on
Codes == {"WRONG_PLUGIN", "COMPOSITOR_NO_PROTOCOL", "UNSUPPORTED", "failed"}

VARIABLES alive,    \* the daemon has not died
          offers,   \* what each server or card offers, or Absent
          level,    \* the power level of each screen
          starts,   \* the starts of each server
          wl_map,   \* the connection for each Wayland display
          manager,  \* dpms_control_manager of the two Wayland plugins
          call,     \* the call that is handled, or Absent
          chain,    \* the plugins that it may still ask
          reply     \* the answer of the last plugin that was asked

vars == <<alive, offers, level, starts, wl_map, manager, call, chain, reply>>

Names == XNames \cup WlNames \cup Cards \cup {Empty}

\* A peer names a display and an environment; both may be empty.
Environments == Users \cup {Empty}
Calls ==
  [set : {TRUE}, name : Names, user : Users, env : Environments,
   level : Targets] \cup
  [set : {FALSE}, name : Names, user : Users, env : Environments, level : {0}]
Reply == [status : Codes \cup {"ok"}, level : Levels \cup {-1}]

TypeOK ==
  /\ alive \in BOOLEAN
  /\ offers \in [Screens -> {Absent} \cup (SUBSET Features)]
  /\ level \in [Screens -> Levels]
  /\ starts \in [Servers -> 0..MaxStarts]
  /\ wl_map \in [WlNames -> [user : Users, start : 1..MaxStarts] \cup {Absent}]
  /\ manager \in [{"wlr", "kwin"} -> {"null", "destroyed"}]
  /\ call \in Calls \cup {Absent}
  /\ chain \in Seq({Plugins[p] : p \in 1..4})
  /\ reply \in Reply

Answer(status, l) == [status |-> status, level |-> l]
Code(status) == Answer(status, 0)

Init ==
  /\ alive = TRUE
  /\ offers \in [Screens -> CardKinds \cup {Absent}]
  /\ \A s \in Screens : offers[s] = Absent <=> s \in Servers
  /\ level = [s \in Screens |-> 0]
  /\ starts = [s \in Servers |-> 0]
  /\ wl_map = [n \in WlNames |-> Absent]
  /\ manager = [p \in {"wlr", "kwin"} |-> "null"]
  /\ call = Absent /\ chain = << >> /\ reply = Code("WRONG_PLUGIN")

-----------------------------------------------------------------------------
(* The plugins: each asks whether the call is for it, answers, and may     *)
(* change the level of a screen.                                           *)

\* What a plugin does on screen s, which it drives: Get answers its level,
\* Set changes it.  wlroots knows on and off only.
Known(p, l) == IF p = "wlr" /\ l # 0 THEN 1 ELSE l

Drive(p, s) ==
  IF call.set
    THEN /\ level' = [level EXCEPT ![s] = Known(p, call.level)]
         /\ reply' = Answer("ok", call.level)
    ELSE /\ reply' = Answer("ok", Known(p, level[s]))
         /\ UNCHANGED level

Say(status) == reply' = Code(status) /\ UNCHANGED level

\* A change that is lost, of which the plugin does not know.
Lose(l) == reply' = Answer("ok", l) /\ UNCHANGED level

\* The user in whose environment the displays of call c are looked for.
Owner(c) == IF c.env = Empty THEN c.user ELSE c.env

\* xorg.c: a display that cannot be opened as the user is not one of X.
AskXorg ==
  LET s == <<call.name, Owner(call)>>
  IN  /\ IF s \notin Servers \ Compositors \/ offers[s] = Absent
           THEN Say("WRONG_PLUGIN")
         ELSE IF "dpms" \in offers[s] THEN Drive("xorg", s)
         ELSE Say("UNSUPPORTED")
      /\ UNCHANGED <<alive, wl_map, manager>>

\* fetch_wl_display: the map entry for display n after the call ...
Connected(n, u) ==
  IF wl_map[n] = Absent /\ offers[<<n, u>>] # Absent
    THEN [user |-> u, start |-> starts[<<n, u>>]]
    ELSE wl_map[n]

\* ... which is used only if it is a connection of the same environment.
UsableByAll(c, u) == c # Absent
Usable(c, u) == c # Absent /\ c.user = u

\* What a plugin sees over connection c to display n: nothing if the
\* compositor is not the one that it was opened to.
SeenOn(n, c) ==
  LET s == <<n, c.user>>
  IN  IF offers[s] # Absent /\ starts[s] = c.start THEN offers[s] ELSE {}

NoProtocolUnset(p) == "ok"
NoProtocol(p) == IF p = "wlr" THEN "WRONG_PLUGIN" ELSE "COMPOSITOR_NO_PROTOCOL"

\* wl.c and kwin_wl.c: wl_init binds the manager if the compositor has it.
\* Without it, NULL is the answer for `no protocol', but a manager that an
\* earlier call destroyed is used again: the daemon may die, see no outputs,
\* or, in wl.c, have its requests ignored and its outputs taken to be off.
AskWayland(p) ==
  LET n == IF call.name = Empty THEN DefaultWl ELSE call.name
      c == IF n \in WlNames THEN Connected(n, Owner(call)) ELSE Absent
      seen == SeenOn(n, c)
  IN  /\ wl_map' = IF n \in WlNames THEN [wl_map EXCEPT ![n] = c] ELSE wl_map
      /\ \/ /\ ~Usable(c, Owner(call))
            /\ Say("WRONG_PLUGIN")
            /\ UNCHANGED <<alive, manager>>
         \/ /\ Usable(c, Owner(call)) /\ p \in seen
            /\ IF "outputs" \in seen THEN Drive(p, <<n, c.user>>)
               ELSE Say("UNSUPPORTED")
            /\ manager' = [manager EXCEPT ![p] = "destroyed"]
            /\ UNCHANGED alive
         \/ /\ Usable(c, Owner(call)) /\ p \notin seen /\ manager[p] = "null"
            /\ Say(NoProtocol(p))
            /\ UNCHANGED <<alive, manager>>
         \/ /\ Usable(c, Owner(call)) /\ p \notin seen /\ manager[p] # "null"
            /\ alive' \in BOOLEAN
            /\ \/ Say("UNSUPPORTED")
               \/ /\ p = "wlr" /\ "outputs" \in seen
                  /\ Lose(IF call.set THEN call.level ELSE 1)
            /\ UNCHANGED manager

\* drm.c: the empty name is the first card; becoming master may fail,
\* and so may ceasing to be it, after the level has changed.  That the card
\* did not take the level is not told.
AskDrm ==
  LET card == IF call.name = Empty THEN DefaultCard ELSE call.name
      s == <<card, System>>
  IN  /\ IF card \notin Cards THEN Say("WRONG_PLUGIN")
         ELSE IF "outputs" \notin offers[s]
           THEN IF call.set THEN Lose(call.level) \/ Say("failed")
                ELSE reply' = Answer("failed", -1) /\ UNCHANGED level
         ELSE \/ Drive("drm", s)
              \/ call.set /\ Say("failed")
              \/ call.set /\ card \in Refusing /\ Lose(call.level)
              \/ /\ call.set
                 /\ level' = [level EXCEPT ![s] = call.level]
                 /\ reply' = Code("failed")
      /\ UNCHANGED <<alive, wl_map, manager>>

-----------------------------------------------------------------------------
(* dpms.c *)

\* No call is handled.
Ready == alive /\ call = Absent /\ reply = Code("WRONG_PLUGIN")

\* method_getdpms, and method_setdpms when authorized and in range, on the
\* main object or on that of a plugin.
Request(c, plugins) ==
  /\ Ready
  /\ call' = c /\ chain' = plugins
  /\ UNCHANGED <<alive, offers, level, starts, wl_map, manager, reply>>

\* The next plugin is asked only if this one was wrong.
GoesOn(r) == r.status = "WRONG_PLUGIN"

Ask ==
  /\ alive /\ call # Absent
  /\ LET p == Head(chain)
     IN  \/ p = "xorg" /\ AskXorg
         \/ p \in {"wlr", "kwin"} /\ AskWayland(p)
         \/ p = "drm" /\ AskDrm
  /\ IF GoesOn(reply') /\ Len(chain) > 1
       THEN chain' = Tail(chain) /\ UNCHANGED call
       ELSE chain' = << >> /\ call' = Absent
  /\ UNCHANGED <<offers, starts>>

\* The answer is sent.
Done ==
  /\ alive /\ call = Absent /\ reply # Code("WRONG_PLUGIN")
  /\ reply' = Code("WRONG_PLUGIN")
  /\ UNCHANGED <<alive, offers, level, starts, wl_map, manager, call, chain>>

\* The environment: servers start, with their screens on, and end.
KindsOf(s) == IF s \in Compositors THEN WlKinds ELSE XKinds

Start(s) ==
  /\ alive /\ offers[s] = Absent
  /\ FoldFunction(+, 0, starts) < MaxStarts
  /\ starts' = [starts EXCEPT ![s] = @ + 1]
  /\ \E kind \in KindsOf(s) : offers' = [offers EXCEPT ![s] = kind]
  /\ UNCHANGED <<alive, level, wl_map, manager, call, chain, reply>>

End(s) ==
  /\ alive /\ offers[s] # Absent
  /\ offers' = [offers EXCEPT ![s] = Absent]
  /\ level' = [level EXCEPT ![s] = 0]
  /\ UNCHANGED <<alive, starts, wl_map, manager, call, chain, reply>>

Requests ==
  /\ Ready
  /\ \E c \in Calls :
       \E plugins \in {Plugins} \cup {<<Plugins[p]>> : p \in 1..4} :
         Request(c, plugins)

ServersChange == \E s \in Servers : Start(s) \/ End(s)

Next == Requests \/ Ask \/ Done \/ ServersChange

Spec == Init /\ [][Next]_vars

-----------------------------------------------------------------------------
(* Properties *)

\* The screens that call c names: the display of that name, the default ones
\* for the empty name, of the user whose environment it names, of its sender
\* if it names none.
Asked(c) ==
  {s \in Screens :
     /\ s[1] \in IF c.name = Empty THEN {DefaultWl, DefaultCard} ELSE {c.name}
     /\ s[2] \in {System, IF c.env = Empty THEN c.user ELSE c.env}}

\* A call changes at most one screen, one that it names: the plugins after the
\* one that serves it are not asked, and no connection that a call for another
\* user's environment has opened to a display of that name serves it
\* (wl_utils.c:63-68).
AskedScreen ==
  [][Ask => \A s \in Screens :
              level'[s] # level[s] =>
                /\ s \in Asked(call)
                /\ reply.status = "WRONG_PLUGIN"
                /\ reply'.status \in {"ok", "failed"}
                /\ \A other \in Screens \ {s} : level'[other] = level[other]]_vars

\* The code does not learn that plugin p has not reached screen s: a card has
\* no output or does not take the level (drm.c:70-87), or the manager of an
\* earlier compositor is used with one that has none (wl.c:79).
Unnoticed(p, s) ==
  \/ p = "drm" /\ call.set /\ (s[1] \in Refusing \/ "outputs" \notin offers[s])
  \/ p = "wlr" /\ p \notin offers[s] /\ manager[p] # "null"

\* What a call that succeeds replies is the level of the very screen that it
\* names, as far as the plugin that answers can tell levels apart, also over
\* old connections and to compositors that have restarted, but for what goes
\* unnoticed: a dead connection never counts as success.
ReplyIsTrue ==
  [][Ask /\ alive' /\ reply'.status = "ok" =>
       LET p == Head(chain)
       IN  \E s \in Asked(call) :
             /\ s \in Servers <=> p # "drm"
             /\ offers[s] # Absent
             /\ \/ Known(p, level'[s]) = Known(p, reply'.level)
                \/ Unnoticed(p, s)]_vars
=============================================================================
