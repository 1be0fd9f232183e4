------------------------------- MODULE Camera -------------------------------
(***************************************************************************)
(* The settings of a camera around a capture (sensors/camera.h and         *)
(* set_camera_setting of sensors/camera.c).                                *)
(*                                                                         *)
(* A capture first resets a list of V4L2 controls to their default, then   *)
(* applies the settings of the caller; what it changes it stores, under    *)
(* the name of the control, and restores after the last frame.  Each ioctl *)
(* may fail.  Names begin with Camera where Sensor, the capture around it, *)
(* has them too: one module of proofs extends both.                        *)
(***************************************************************************)
EXTENDS Integers, Sequences

CONSTANTS Controls,   \* V4L2 controls
          DefaultOps, \* those that set_camera_settings_def resets, in order
          DefaultOf,  \* the default value of a control
          Presets,    \* values that controls have at first
          Areas,      \* what a crop may ask for
          Requests,   \* what callers may pass: sequences of settings
          Flaky,      \* controls whose ioctls may fail
          Absent      \* no entry

\* A setting is <<control, value>>; a crop is <<axis, area>>.
Axes == {"x", "y"}

ASSUME CameraAssumption ==
  /\ DefaultOps \in Seq(Controls)
  /\ Presets \subseteq Int
  /\ DefaultOf \in [Controls -> Presets]
  /\ Flaky \subseteq Controls /\ Axes \cap Controls = {}
  /\ Requests \subseteq Seq((Controls \X Int) \cup (Axes \X Areas))
  /\ Absent \notin Controls \X Int

VARIABLES value,   \* the controls of the camera
          stored,  \* stored_values, by name
          crop,    \* the area of each axis, or Absent
          todo,    \* settings still to set
          phase,
          before,  \* the controls when the capture began (history)
          lost     \* controls whose old value may be lost (history)

camera_vars == <<value, stored, crop, todo, phase, before, lost>>

\* SET_V4L2 names an entry after its macro argument: the name of a default
\* control, but `v4l2_op' for each setting of the caller.
Names == Controls \cup {"v4l2_op"}
NoneStored == [name \in Names |-> Absent]
NoCrop == [axis \in Axes |-> Absent]

CameraTypeOK ==
  /\ value \in [Controls -> Int]
  /\ stored \in [Names -> (Controls \X Int) \cup {Absent}]
  /\ DOMAIN crop = Axes
  /\ phase \in {"ready", "set", "frames", "restore"}
  /\ before \in [Controls -> Int]
  /\ lost \subseteq Controls

CameraInit ==
  /\ value \in [Controls -> Presets]
  /\ before = value
  /\ stored = NoneStored /\ crop = NoCrop
  /\ todo = << >> /\ lost = {} /\ phase = "ready"

\* What a V4L2 value asks for: the default if it is negative.
Asked(control, v) == IF v < 0 THEN DefaultOf[control] ELSE v

\* set_camera_setting: the new value of the control, and whether the old one
\* is to be stored.  Nothing changes if G_CTRL or S_CTRL fails; that QUERYCTRL
\* fails is not noticed, and the default is then 0.
Write(control, new) == [value |-> new, store |-> value[control] # new]
Outcomes(control, v) ==
  {Write(control, Asked(control, v))} \cup
  (IF control \in Flaky
     THEN {Write(control, value[control])} \cup
          (IF v < 0 THEN {Write(control, 0)} ELSE {})
     ELSE {})

StoredLate(name, control, new) ==
  [stored EXCEPT ![name] = <<control, new>>]
Stored(name, control, new) ==
  [stored EXCEPT ![name] = <<control, value[control]>>]

\* SET_V4L2: map_put replaces the entry that has the same name.  That loses an
\* old value, and so may a second entry of a control under another name, as
\* either may be restored last.
Endangered(name, control) ==
  {c \in Controls :
     \/ stored[name] # Absent /\ stored[name][1] = c
     \/ c = control /\ \E other \in Names :
                          stored[other] # Absent /\ stored[other][1] = c}

SetV4l2(name, control, v) ==
  \E o \in Outcomes(control, v) :
    /\ value' = [value EXCEPT ![control] = o.value]
    /\ stored' = IF o.store THEN Stored(name, control, o.value) ELSE stored
    /\ lost' = IF o.store THEN lost \cup Endangered(name, control) ELSE lost

\* capture: set_camera_settings is reached once the stream runs.
Capture(request) ==
  /\ phase = "ready" /\ phase' = "set"
  /\ todo' = [i \in 1..Len(DefaultOps) |-> <<DefaultOps[i], DefaultOps[i], -1>>]
             \o [i \in 1..Len(request) |->
                    <<"v4l2_op", request[i][1], request[i][2]>>]
  /\ before' = value /\ lost' = {}
  /\ UNCHANGED <<value, stored, crop>>

\* The next setting: a control, or the first crop of an axis.
SetNext ==
  /\ phase = "set" /\ todo # << >>
  /\ LET name == Head(todo)[1]
         key  == Head(todo)[2]
         val  == Head(todo)[3]
     IN  \/ /\ key \in Controls
            /\ SetV4l2(name, key, val)
            /\ UNCHANGED crop
         \/ /\ key \in Axes
            /\ crop' = IF crop[key] = Absent THEN [crop EXCEPT ![key] = val]
                       ELSE crop
            /\ UNCHANGED <<value, stored, lost>>
  /\ todo' = Tail(todo)
  /\ UNCHANGED <<phase, before>>

\* The frames are taken when all is set; then the settings are restored.
TakeFrames ==
  /\ phase = "set" /\ todo = << >> /\ phase' = "frames"
  /\ UNCHANGED <<value, stored, crop, todo, before, lost>>

Stop ==
  /\ phase = "frames" /\ phase' = "restore"
  /\ UNCHANGED <<value, stored, crop, todo, before, lost>>

\* restore_camera_settings: the entries in the order of the map, which is any.
Restore(name) ==
  /\ phase = "restore" /\ stored[name] # Absent
  /\ \E o \in Outcomes(stored[name][1], stored[name][2]) :
       value' = [value EXCEPT ![stored[name][1]] = o.value]
  /\ stored' = [stored EXCEPT ![name] = Absent]
  /\ UNCHANGED <<crop, todo, phase, before, lost>>

\* At the end, the map is freed and the crop cleared.
CropAfter == NoCrop

Restored ==
  /\ phase = "restore" /\ stored = NoneStored
  /\ phase' = "ready"
  /\ crop' = CropAfter
  /\ UNCHANGED <<value, stored, todo, before, lost>>

CameraNext ==
  \/ \E request \in Requests : Capture(request)
  \/ SetNext \/ TakeFrames \/ Stop
  \/ \E name \in Names : Restore(name)
  \/ Restored

CameraSpec == CameraInit /\ [][CameraNext]_camera_vars

-----------------------------------------------------------------------------
(* Properties *)

\* After a capture every control that answers has the value it had before,
\* whatever was set and failed, and no crop is left for the next capture
\* (camera.h:169-174, camera.c:131); except the controls that `lost' names, as
\* settings of the caller share one name and so one entry, and one that had a
\* negative value, which may get its default instead (camera.c:137).
SettingsRestored ==
  phase = "ready" =>
    /\ \A control \in Controls \ (Flaky \cup lost) :
         value[control] \in {before[control], Asked(control, before[control])}
    /\ crop = NoCrop
=============================================================================
