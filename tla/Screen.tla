------------------------------- MODULE Screen -------------------------------
(***************************************************************************)
(* The Screen module (screen.c) and its plugins (screen_plugins/*.c) in    *)
(* one daemon with Dpms: both reach displays in the environment that the   *)
(* caller names, which no authorization guards here, or in its own, and    *)
(* both use the cached Wayland connections.                                *)
(*                                                                         *)
(* GetEmittedBrightness asks one plugin, or each in turn until one does    *)
(* not say that it is the wrong one, for the mean brightness of what a     *)
(* server shows.  The brightness is the screen that it was taken from.     *)
(***************************************************************************)
EXTENDS Dpms

CONSTANTS Framebuffers,       \* those that can be opened
          DefaultFramebuffer  \* the first of udev, or Absent

ASSUME ScreenAssumption ==
  /\ DefaultFramebuffer \in Framebuffers \cup {Absent}
  /\ Framebuffers \cap (Names \cup {Absent}) = {}

VARIABLES shot,    \* the call that is handled: its display and environment
          sources, \* the plugins that it may still ask
          picture  \* the answer of the last plugin that was asked

screen == <<shot, sources, picture>>
allvars == <<vars, screen>>

ScreenPlugins == <<"xorg", "wl", "fb">>
Shots ==
  [name : (Names \ Cards) \cup Framebuffers, user : Users, env : Environments]
Picture(status, from) == [status |-> status, from |-> from]
Wrong == Picture("WRONG_PLUGIN", Absent)

ScreenTypeOK ==
  /\ TypeOK
  /\ shot \in Shots \cup {Absent}
  /\ sources \in Seq({ScreenPlugins[p] : p \in 1..3})
  /\ picture \in
       [status : {"ok", "WRONG_PLUGIN", "COMPOSITOR_NO_PROTOCOL",
                  "UNSUPPORTED", "failed"},
        from : Servers \cup (Framebuffers \X {System}) \cup {Absent}]

ScreenInit == Init /\ shot = Absent /\ sources = << >> /\ picture = Wrong

Shown(status, from) == picture' = Picture(status, from)

\* xorg.c: the image of the root window may not be had.
ShootXorg ==
  LET s == <<shot.name, Owner(shot)>>
  IN  /\ IF s \notin Servers \ Compositors \/ offers[s] = Absent
           THEN picture' = Wrong
           ELSE Shown("ok", s) \/ Shown("UNSUPPORTED", Absent)
      /\ UNCHANGED <<alive, wl_map>>

\* wl.c, of a compositor that it is connected to: without the protocol, the
\* outputs have no frame that wl_cleanup could free, and the daemon dies.
\* With it, it also dies of an output that fails before it has a buffer; one
\* that fails later counts as black.
ShootCompositor(s, seen) ==
  \/ /\ "screencopy" \notin seen
     /\ alive' = ("outputs" \notin seen)
     /\ Shown("COMPOSITOR_NO_PROTOCOL", Absent)
  \/ /\ "screencopy" \in seen /\ "outputs" \notin seen
     /\ Shown("UNSUPPORTED", Absent)
     /\ UNCHANGED alive
  \/ /\ {"screencopy", "outputs"} \subseteq seen
     /\ Shown("ok", s)
     /\ alive' \in BOOLEAN

\* wl.c: without a connection, wl_cleanup walks a list of outputs that was
\* never initialized: the daemon dies instead of asking the next plugin.
ShootWayland ==
  LET n == IF shot.name = Empty THEN DefaultWl ELSE shot.name
      c == IF n \in WlNames THEN Connected(n, Owner(shot)) ELSE Absent
  IN  /\ wl_map' = IF n \in WlNames THEN [wl_map EXCEPT ![n] = c] ELSE wl_map
      /\ IF Usable(c, Owner(shot))
           THEN ShootCompositor(<<n, c.user>>, SeenOn(n, c))
           ELSE alive' = FALSE /\ picture' = Wrong

\* fb.c: the framebuffer may not be described, read or make sense.
ShootFb ==
  LET f == IF shot.name = Empty THEN DefaultFramebuffer ELSE shot.name
  IN  /\ IF f \notin Framebuffers THEN picture' = Wrong
         ELSE \/ Shown("ok", <<f, System>>)
              \/ \E status \in {"UNSUPPORTED", "failed"} : Shown(status, Absent)
      /\ UNCHANGED <<alive, wl_map>>

-----------------------------------------------------------------------------

ShotReady == shot = Absent /\ picture = Wrong

\* method_getbrightness, on the main object or on that of a plugin.  The
\* daemon handles one call at a time.
RequestShot(c, plugins) ==
  /\ Ready /\ ShotReady
  /\ shot' = c /\ sources' = plugins
  /\ UNCHANGED <<vars, picture>>

Shoot ==
  /\ alive /\ shot # Absent
  /\ \/ Head(sources) = "xorg" /\ ShootXorg
     \/ Head(sources) = "wl" /\ ShootWayland
     \/ Head(sources) = "fb" /\ ShootFb
  /\ IF picture'.status = "WRONG_PLUGIN" /\ Len(sources) > 1
       THEN sources' = Tail(sources) /\ UNCHANGED shot
       ELSE sources' = << >> /\ shot' = Absent
  /\ UNCHANGED <<offers, level, starts, manager, call, chain, reply>>

ShotDone ==
  /\ alive /\ shot = Absent /\ picture # Wrong
  /\ picture' = Wrong
  /\ UNCHANGED <<vars, shot, sources>>

ShotRequests ==
  /\ Ready /\ ShotReady
  /\ \E c \in Shots :
       \E plugins \in {ScreenPlugins} \cup {<<ScreenPlugins[p]>> : p \in 1..3} :
         RequestShot(c, plugins)

\* Servers change during all calls, but Dpms serves none meanwhile.
DpmsStep ==
  /\ IF ShotReady THEN Next ELSE ServersChange
  /\ UNCHANGED screen

ScreenNext == ShotRequests \/ Shoot \/ ShotDone \/ DpmsStep

ScreenSpec == ScreenInit /\ [][ScreenNext]_allvars

-----------------------------------------------------------------------------
(* Properties *)

\* A brightness that is replied was taken from the screen that was asked for:
\* of the display of that name, in the environment that the call names, the
\* caller's own if it names none, or a framebuffer.  It was not taken over the
\* connection to another user's display of the same name, or to a compositor
\* that has ended, which Dpms or an earlier call left in the cache
\* (wl_utils.c:63-68).
PictureIsAsked ==
  [][Shoot /\ alive' /\ picture'.status = "ok" =>
       LET s == picture'.from
       IN  /\ IF s \in Servers
                THEN /\ offers[s] # Absent
                     /\ s[2] = IF shot.env = Empty THEN shot.user ELSE shot.env
                ELSE s \in Framebuffers \X {System}
           /\ IF shot.name = Empty THEN s[1] \in {DefaultWl, DefaultFramebuffer}
              ELSE s[1] = shot.name]_allvars
=============================================================================
