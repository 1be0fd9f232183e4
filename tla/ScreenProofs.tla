---------------------------- MODULE ScreenProofs ----------------------------
(***************************************************************************)
(* Proofs about Screen and Dpms in one daemon, for any users, displays     *)
(* and servers.                                                            *)
(***************************************************************************)
EXTENDS Screen, TLAPS

\* Each plugin of a chain is asked only after all before it were wrong, and
\* every card offers what it has; the calls are ones that peers may make.
Inv ==
  /\ level = [s \in Screens |-> level[s]]
  /\ offers = [s \in Screens |-> offers[s]]
  /\ \A card \in Cards : offers[<<card, System>>] # Absent
  /\ call \in Calls \cup {Absent}
  /\ shot \in Shots \cup {Absent}
  /\ call # Absent => reply.status = "WRONG_PLUGIN"

\* The call may go to screen s over plugin p.
Reaches(p, s) ==
  /\ s \in Asked(call) /\ offers[s] # Absent
  /\ s \in Servers <=> p # "drm"

\* What asking plugin p comes to: it refuses, drives a screen that the call
\* names, changes that screen and fails, or loses the change.
LEMMA Asking ==
  ASSUME Inv, Ask
  PROVE  LET p == Head(chain)
         IN  \/ UNCHANGED level /\ reply'.status # "ok"
             \/ \E s : /\ Reaches(p, s)
                       /\ \/ Drive(p, s)
                          \/ /\ level' = [level EXCEPT ![s] = call.level]
                             /\ reply' = Code("failed")
                          \/ UNCHANGED level /\ Unnoticed(p, s)
<1> DEFINE p == Head(chain)
           Goal == \/ UNCHANGED level /\ reply'.status # "ok"
                   \/ \E s : /\ Reaches(p, s)
                             /\ \/ Drive(p, s)
                                \/ /\ level' = [level EXCEPT ![s] = call.level]
                                   /\ reply' = Code("failed")
                                \/ UNCHANGED level /\ Unnoticed(p, s)
<1>0. /\ Servers \subseteq Screens /\ Compositors \subseteq Servers
      /\ \A card \in Cards : /\ <<card, System>> \in Screens
                             /\ <<card, System>> \notin Servers
  BY NamesAssumption DEF Screens, Servers, Compositors
<1>1. call \in Calls /\ Owner(call) \in Users
  BY DEF Ask, Inv, Calls, Environments, Owner
<1>2. ASSUME NEW status \in Codes, Say(status) PROVE Goal
  <2>1. status # "ok"
    BY DEF Codes
  <2> QED
    BY <1>2, <2>1 DEF Say, Code, Answer
<1>3. CASE p = "xorg" /\ AskXorg
  <2> DEFINE s == <<call.name, Owner(call)>>
  <2>1. \/ \E status \in Codes : Say(status)
        \/ s \in Servers \ Compositors /\ offers[s] # Absent /\ Drive("xorg", s)
    BY <1>3 DEF AskXorg, Codes
  <2>2. ASSUME s \in Servers \ Compositors, offers[s] # Absent
        PROVE  Reaches("xorg", s)
    <3>1. call.name \in XNames
      BY <2>2 DEF Servers
    <3> QED
      BY <2>2, <3>1, <1>0, NamesAssumption DEF Reaches, Asked, Owner
  <2> QED
    BY <1>2, <1>3, <2>1, <2>2
<1>4. CASE p \in {"wlr", "kwin"} /\ AskWayland(p)
  <2> DEFINE n == IF call.name = Empty THEN DefaultWl ELSE call.name
             c == IF n \in WlNames THEN Connected(n, Owner(call)) ELSE Absent
             seen == SeenOn(n, c)
             s == <<n, c.user>>
  <2>1. \/ \E status \in Codes : Say(status)
        \/ /\ Usable(c, Owner(call))
           /\ \/ p \in seen /\ Drive(p, s)
              \/ /\ p = "wlr" /\ p \notin seen /\ "outputs" \in seen
                 /\ manager[p] # "null" /\ UNCHANGED level
    <3>1. NoProtocol(p) \in Codes
      BY DEF NoProtocol, Codes
    <3> QED
      BY <1>4, <3>1 DEF AskWayland, Codes, Lose
  <2>2. ASSUME Usable(c, Owner(call)), seen # {}
        PROVE  Reaches(p, s) /\ seen = offers[s]
    <3>1. n \in WlNames /\ c.user = Owner(call)
      BY <2>2 DEF Usable
    <3>2. seen = offers[s] /\ offers[s] # Absent
      BY <2>2 DEF SeenOn
    <3>3. s \in Compositors
      BY <1>1, <3>1 DEF Compositors
    <3>4. s \in Asked(call)
      BY <3>1, <3>3, <1>0 DEF Asked, Owner
    <3> QED
      BY <1>4, <3>2, <3>3, <3>4, <1>0 DEF Reaches
  <2> HIDE DEF seen, s
  <2>3. ASSUME Usable(c, Owner(call)), p \in seen, Drive(p, s) PROVE Goal
    BY <2>2, <2>3
  <2>4. ASSUME Usable(c, Owner(call)), p = "wlr", p \notin seen,
               "outputs" \in seen, manager[p] # "null", UNCHANGED level
        PROVE  Goal
    <3>1. Reaches(p, s) /\ Unnoticed(p, s)
      BY <2>2, <2>4 DEF Unnoticed
    <3> QED
      BY <2>4, <3>1
  <2>5. Goal
    <3> HIDE DEF c, n, Goal
    <3> QED
      BY <1>2, <2>1, <2>3, <2>4
  <2> QED
    BY <2>5
<1>5. CASE p = "drm" /\ AskDrm
  <2> DEFINE card == IF call.name = Empty THEN DefaultCard ELSE call.name
             s == <<card, System>>
  <2>1. CASE card \notin Cards
    BY <1>2, <1>5, <2>1 DEF AskDrm, Codes
  <2>2. CASE card \in Cards
    <3>1. Reaches("drm", s)
      BY <2>2, <1>0 DEF Reaches, Asked, Inv
    <3>2. reply' = Answer("failed", -1) => reply'.status # "ok"
      BY DEF Answer
    <3>3. \/ \E status \in Codes : Say(status)
          \/ UNCHANGED level /\ reply'.status # "ok"
          \/ Drive("drm", s)
          \/ /\ level' = [level EXCEPT ![s] = call.level]
             /\ reply' = Code("failed")
          \/ /\ UNCHANGED level /\ call.set
             /\ card \in Refusing \/ "outputs" \notin offers[s]
      BY <1>5, <2>2, <3>2 DEF AskDrm, Codes, Lose
    <3>4. call.set /\ (card \in Refusing \/ "outputs" \notin offers[s])
            => Unnoticed("drm", s)
      BY DEF Unnoticed
    <3> QED
      BY <1>2, <1>5, <3>1, <3>3, <3>4
  <2> QED
    BY <2>1, <2>2
<1> QED
  BY <1>3, <1>4, <1>5 DEF Ask

LEMMA ScreenInv == ScreenSpec => []Inv
<1>0. /\ Servers \subseteq Screens /\ Compositors \subseteq Servers
      /\ \A card \in Cards : /\ <<card, System>> \in Screens
                             /\ <<card, System>> \notin Servers
  BY NamesAssumption DEF Screens, Servers, Compositors
<1>1. ScreenInit => Inv
  BY <1>0 DEF ScreenInit, Init, Inv
<1>2. Inv /\ [ScreenNext]_allvars => Inv'
  <2> SUFFICES ASSUME Inv, [ScreenNext]_allvars PROVE Inv'
    OBVIOUS
  <2>1. CASE Ask /\ UNCHANGED screen
    <3>1. level' = [s \in Screens |-> level'[s]]
      BY Asking, <2>1 DEF Drive, Inv
    <3>2. /\ call' # Absent => reply'.status = "WRONG_PLUGIN"
          /\ UNCHANGED <<offers, shot>> /\ call' \in {call, Absent}
      BY <2>1 DEF Ask, GoesOn, screen
    <3> QED
      BY <3>1, <3>2 DEF Inv
  <2>2. CASE Requests /\ UNCHANGED screen
    <3>1. PICK c \in Calls : call' = c
      BY <2>2 DEF Requests, Request
    <3>2. UNCHANGED <<offers, level, reply, shot>> /\ reply = Code("WRONG_PLUGIN")
      BY <2>2 DEF Requests, Request, Ready, screen
    <3> QED
      BY <3>1, <3>2 DEF Code, Answer, Inv
  <2>3. CASE Done /\ UNCHANGED screen
    BY <2>3 DEF Done, screen, Inv
  <2>4. ASSUME NEW s \in Servers, Start(s) \/ End(s), UNCHANGED screen
        PROVE  Inv'
    <3>1. /\ UNCHANGED <<call, reply, shot>>
          /\ level' = [t \in Screens |-> level'[t]]
      BY <2>4 DEF Start, End, screen, Inv
    <3>2. PICK kind : offers' = [offers EXCEPT ![s] = kind]
      BY <2>4 DEF Start, End
    <3>3. \A card \in Cards : <<card, System>> # s
      BY <1>0
    <3> QED
      BY <3>1, <3>2, <3>3, <1>0 DEF Inv
  <2>5. CASE ShotRequests \/ Shoot \/ ShotDone \/ UNCHANGED allvars
    BY <2>5 DEF ShotRequests, RequestShot, Shoot, ShotDone, allvars, screen,
                vars, Inv
  <2> QED
    BY <2>1, <2>2, <2>3, <2>4, <2>5
      DEF ScreenNext, DpmsStep, Next, ServersChange
<1> QED
  BY <1>1, <1>2, PTL DEF ScreenSpec

-----------------------------------------------------------------------------

\* A call changes at most one screen, and replies no brightness but of a
\* screen, that is of the environment that it names, its sender's if it names
\* none, or a card or a framebuffer, whatever connections earlier calls of both
\* modules have left, in whatever order servers come and go
\* (wl_utils.c:63-72).
THEOREM AskedDisplays == ScreenSpec => AskedScreen /\ PictureIsAsked
<1> DEFINE Step == \A s \in Screens :
                     level'[s] # level[s] =>
                       /\ s \in Asked(call)
                       /\ reply.status = "WRONG_PLUGIN"
                       /\ reply'.status \in {"ok", "failed"}
                       /\ \A other \in Screens \ {s} :
                            level'[other] = level[other]
           Own(s) == IF s \in Servers
                       THEN /\ offers[s] # Absent
                            /\ s[2] = IF shot.env = Empty THEN shot.user
                                      ELSE shot.env
                       ELSE s \in Framebuffers \X {System}
           Right(s) == IF shot.name = Empty
                         THEN s[1] \in {DefaultWl, DefaultFramebuffer}
                         ELSE s[1] = shot.name
           From == Shoot /\ alive' /\ picture'.status = "ok" =>
                     Own(picture'.from) /\ Right(picture'.from)
<1>1. Inv /\ [ScreenNext]_allvars => [Ask => Step]_vars
  <2> SUFFICES ASSUME Inv, Ask, NEW s \in Screens, level'[s] # level[s]
               PROVE  /\ s \in Asked(call)
                      /\ reply.status = "WRONG_PLUGIN"
                      /\ reply'.status \in {"ok", "failed"}
                      /\ \A other \in Screens \ {s} :
                           level'[other] = level[other]
    OBVIOUS
  <2>1. PICK t : /\ t \in Asked(call)
                 /\ \/ Drive(Head(chain), t)
                    \/ /\ level' = [level EXCEPT ![t] = call.level]
                       /\ reply' = Code("failed")
    BY Asking DEF Reaches
  <2>2. /\ \E l : level' = [level EXCEPT ![t] = l]
        /\ reply'.status \in {"ok", "failed"}
    BY <2>1 DEF Drive, Answer, Code
  <2>3. \A other \in Screens \ {t} : level'[other] = level[other]
    BY <2>2 DEF Inv
  <2>4. reply.status = "WRONG_PLUGIN"
    BY DEF Ask, Inv
  <2> QED
    BY <2>1, <2>2, <2>3, <2>4
<1>2. Inv /\ [ScreenNext]_allvars => [From]_allvars
  <2> DEFINE s == picture'.from
  <2> SUFFICES ASSUME Inv, Shoot, alive', picture'.status = "ok"
               PROVE  Own(s) /\ Right(s)
    OBVIOUS
  <2>1. CASE ShootXorg
    <3>1. s = <<shot.name, Owner(shot)>> /\ s \in Servers /\ offers[s] # Absent
      BY <2>1 DEF ShootXorg, Shown, Picture, Wrong
    <3>2. s \notin Compositors
      BY <2>1, <3>1 DEF ShootXorg, Shown, Picture, Wrong
    <3>3. shot.name \in XNames
      BY <3>1, <3>2 DEF Servers
    <3> QED
      BY <3>1, <3>3, NamesAssumption DEF Owner
  <2>2. CASE ShootWayland
    <3> DEFINE n == IF shot.name = Empty THEN DefaultWl ELSE shot.name
               c == IF n \in WlNames THEN Connected(n, Owner(shot)) ELSE Absent
    <3>1. /\ Usable(c, Owner(shot))
          /\ ShootCompositor(<<n, c.user>>, SeenOn(n, c))
      BY <2>2 DEF ShootWayland
    <3>2. c.user = Owner(shot) /\ n \in WlNames
      BY <3>1 DEF Usable
    <3> HIDE DEF c
    <3>3. s = <<n, c.user>> /\ "screencopy" \in SeenOn(n, c)
      <4>1. \/ Shown("COMPOSITOR_NO_PROTOCOL", Absent)
            \/ Shown("UNSUPPORTED", Absent)
            \/ /\ {"screencopy", "outputs"} \subseteq SeenOn(n, c)
               /\ Shown("ok", <<n, c.user>>)
        BY <3>1, Zenon DEF ShootCompositor
      <4> QED
        BY <4>1 DEF Shown, Picture
    <3>4. offers[<<n, c.user>>] # Absent
      BY <3>3 DEF SeenOn
    <3>5. Owner(shot) \in Users
      BY DEF Shoot, Inv, Shots, Environments, Owner
    <3>6. s \in Servers
      BY <3>2, <3>3, <3>5 DEF Servers, Compositors
    <3>7. Right(s)
      BY <3>3
    <3>8. Own(s)
      BY <3>2, <3>3, <3>4, <3>6 DEF Owner
    <3> QED
      BY <3>7, <3>8
  <2>3. CASE ShootFb
    <3> DEFINE f == IF shot.name = Empty THEN DefaultFramebuffer ELSE shot.name
    <3>1. s = <<f, System>> /\ f \in Framebuffers
      BY <2>3 DEF ShootFb, Shown, Picture, Wrong
    <3>2. s \notin Servers
      BY <3>1, NamesAssumption DEF Servers, Compositors
    <3> QED
      BY <3>1, <3>2
  <2> QED
    BY <2>1, <2>2, <2>3 DEF Shoot
<1> QED
  BY ScreenInv, <1>1, <1>2, PTL DEF ScreenSpec, AskedScreen, PictureIsAsked

\* What a call that succeeds replies is what the screen that it names does,
\* over old and dead connections too, whatever servers and cards offer and
\* however they come and go, but where the code does not learn that its change
\* is lost (Unnoticed): a card that does not take it or has no output, and a
\* manager that has been destroyed.
THEOREM RepliesTrue == ScreenSpec => ReplyIsTrue
<1> DEFINE p == Head(chain)
           True == \E s \in Asked(call) :
                     /\ s \in Servers <=> p # "drm"
                     /\ offers[s] # Absent
                     /\ \/ Known(p, level'[s]) = Known(p, reply'.level)
                        \/ Unnoticed(p, s)
<1>1. Inv /\ [ScreenNext]_allvars =>
        [Ask /\ alive' /\ reply'.status = "ok" => True]_vars
  <2> SUFFICES ASSUME Inv, Ask, reply'.status = "ok" PROVE True
    OBVIOUS
  <2>1. PICK s : /\ Reaches(p, s)
                 /\ \/ Drive(p, s)
                    \/ /\ level' = [level EXCEPT ![s] = call.level]
                       /\ reply' = Code("failed")
                    \/ UNCHANGED level /\ Unnoticed(p, s)
    BY Asking
  <2>2. reply' # Code("failed")
    BY DEF Code, Answer
  <2>3. ASSUME Drive(p, s)
        PROVE  Known(p, level'[s]) = Known(p, reply'.level)
    <3>1. s \in Screens
      BY <2>1 DEF Reaches, Asked
    <3>2. CASE call.set
      <4>1. level'[s] = Known(p, call.level) /\ reply'.level = call.level
        BY <2>3, <3>1, <3>2 DEF Drive, Answer, Inv
      <4> QED
        BY <4>1 DEF Known
    <3>3. CASE ~call.set
      <4>1. level'[s] = level[s] /\ reply'.level = Known(p, level[s])
        BY <2>3, <3>3 DEF Drive, Answer
      <4> QED
        BY <4>1 DEF Known
    <3> QED
      BY <3>2, <3>3
  <2> QED
    BY <2>1, <2>2, <2>3 DEF Reaches
<1> QED
  BY ScreenInv, <1>1, PTL DEF ScreenSpec, ReplyIsTrue
=============================================================================
