------------------------------ MODULE Monitors ------------------------------
(***************************************************************************)
(* The DDC plugin of Backlight2 (backlight_plugins/ddc.c): which external  *)
(* monitors the daemon knows, and how it reads and writes their brightness.*)
(*                                                                         *)
(* Each DRM uevent makes the plugin detect all monitors anew, under a new  *)
(* cookie: monitors that it finds get the cookie and the fresh display     *)
(* reference of libddcutil, those left with an old cookie are removed.     *)
(* A monitor that does not answer on DDC may be dimmed by its gamma ramps. *)
(***************************************************************************)
EXTENDS Integers

CONSTANTS Ids,
          Monitors,
          Serial,     \* the id of a monitor on DDC: serial number or device
          Connector,  \* the id of a monitor that is emulated
          Panels,     \* internal panels, and monitors not on I2C: no emulation
          Mute,       \* monitors that do not speak DDC
          Specific,   \* ids with a CLIGHTD_BL_VCP_<serial> of their own
          DdcEnabled, EmulatedEnabled,
          Levels,     \* brightness values
          Absent,     \* no device, no entry
          MaxCookie,  \* detections (bound)
          MaxPending  \* queued uevents (bound)

ASSUME MonitorsAssumption ==
  /\ Serial \in [Monitors -> Ids] /\ Connector \in [Monitors -> Ids]
  /\ Panels \subseteq Monitors /\ Mute \subseteq Monitors
  /\ Specific \subseteq Ids
  /\ {DdcEnabled, EmulatedEnabled} \subseteq BOOLEAN
  /\ Levels \subseteq Nat /\ 0 \in Levels /\ Absent \notin Levels
  /\ MaxCookie \in Nat /\ MaxPending \in Nat

VARIABLES present,           \* monitors that are plugged in
          monitoring,        \* is drm_mon open?
          pending,           \* uevents that drm_mon has queued
          curr_cookie,
          bls,               \* the external devices, by id
          gamma_brightness,  \* emulated brightness, by id
          vcp,               \* brightness features of the monitors
          objects,           \* the objects that peers know
          complete           \* the last detection missed none (history)

vars == <<present, monitoring, pending, curr_cookie, bls, gamma_brightness,
          vcp, objects, complete>>

\* `detected' stands for the display reference: the detection it stems from.
Device == [cookie : 0..MaxCookie, detected : 0..MaxCookie,
           monitor : Monitors, emulated : BOOLEAN]
Known == {i \in Ids : bls[i] # Absent}

ASSUME DeviceAssumption == Absent \notin Device

\* VCP features: the default code and, if there is one, the specific code.
Feature == {"default", "specific"}

\* Devices are filed under the id that their kind has.
TypeOK ==
  /\ present \subseteq Monitors
  /\ monitoring \in BOOLEAN
  /\ pending \in 0..MaxPending
  /\ curr_cookie \in 0..MaxCookie
  /\ bls \in [Ids -> Device \cup {Absent}]
  /\ \A i \in Known : i = IF bls[i].emulated THEN Connector[bls[i].monitor]
                         ELSE Serial[bls[i].monitor]
  /\ gamma_brightness \in [Ids -> Levels \cup {Absent}]
  /\ vcp \in [Monitors -> [Feature -> Levels]]
  /\ objects \subseteq Ids
  /\ complete \in BOOLEAN

-----------------------------------------------------------------------------
(* Detection *)

\* The id that load_devices gives monitor m, which answers on DDC or not.
IdOf(m, answers) ==
  IF answers
    THEN IF DdcEnabled THEN {Serial[m]} ELSE {}
    ELSE IF EmulatedEnabled /\ m \notin Panels THEN {Connector[m]} ELSE {}

\* add_new_external_display, for a device that is new and for one that is not
Fresh(cookie, m, answers) ==
  [cookie |-> cookie, detected |-> cookie, monitor |-> m,
   emulated |-> ~answers]

RefreshedCookie(d, cookie, m) == [d EXCEPT !.cookie = cookie]
Refreshed(d, cookie, m) ==
  [d EXCEPT !.cookie = cookie, !.detected = cookie, !.monitor = m]

\* What load_devices makes of the devices `old': it lists the monitors of
\* `seen', those of `heard' answer; of two monitors with the same id the last
\* that is listed counts.
Loads(old, cookie, seen, heard) ==
  LET ids == [m \in seen |-> IdOf(m, m \in heard)]
      found == UNION {ids[m] : m \in seen}
      last == {f \in [found -> seen] : \A i \in found : i \in ids[f[i]]}
  IN  {[i \in Ids |->
          IF i \notin found THEN old[i]
          ELSE IF old[i] = Absent THEN Fresh(cookie, f[i], f[i] \in heard)
          ELSE Refreshed(old[i], cookie, f[i])] : f \in last}

\* The monitors that one detection may list and open, and those it may hear.
Detections ==
  {e \in (SUBSET present) \X (SUBSET present) : e[2] \subseteq e[1] \ Mute}
Complete(e) == e = <<present, present \ Mute>>

-----------------------------------------------------------------------------
(* The plugin *)

\* init: load_devices, before get_monitor opens the monitor of uevents.
Init ==
  /\ present \in SUBSET Monitors
  /\ monitoring = FALSE /\ pending = 0 /\ curr_cookie = 0
  /\ \E e \in Detections :
       /\ bls \in Loads([i \in Ids |-> Absent], 0, e[1], e[2])
       /\ complete = Complete(e)
  /\ gamma_brightness = [i \in Ids |-> Absent]
  /\ vcp = [m \in Monitors |-> [f \in Feature |-> 0]]
  /\ objects = Known

GetMonitor ==
  /\ ~monitoring /\ monitoring' = TRUE
  /\ UNCHANGED <<present, pending, curr_cookie, bls, gamma_brightness, vcp,
                 objects, complete>>

\* A device with an old cookie is gone.
StaleLater(d, cookie) == d.cookie < cookie - 1
Stale(d, cookie) == d.cookie # cookie

\* InterfacesAdded is signalled except on the first load.
AnnouncesLate(cookie) == cookie > 1
Announces(cookie) == cookie > 0

\* The entries of gamma_brightness once the devices of `gone' are freed.
Uncleaned(gone) == gamma_brightness
Cleaned(gone) ==
  [i \in Ids |-> IF i \in gone THEN Absent ELSE gamma_brightness[i]]

\* receive and update_external_devices
Receive ==
  /\ monitoring /\ pending > 0 /\ curr_cookie < MaxCookie
  /\ pending' = pending - 1
  /\ curr_cookie' = curr_cookie + 1
  /\ \E e \in Detections :
       \E loaded \in Loads(bls, curr_cookie', e[1], e[2]) :
         LET gone == {i \in Ids : /\ loaded[i] # Absent
                                  /\ Stale(loaded[i], curr_cookie')}
             new == {i \in Ids : loaded[i] # Absent /\ bls[i] = Absent}
         IN  /\ bls' = [i \in Ids |-> IF i \in gone THEN Absent ELSE loaded[i]]
             /\ gamma_brightness' =
                  Cleaned({i \in gone : loaded[i].emulated})
             /\ objects' =
                  (objects \cup (IF Announces(curr_cookie') THEN new ELSE {}))
                    \ gone
             /\ complete' = Complete(e)
  /\ UNCHANGED <<present, monitoring, vcp>>

\* set: by the gamma ramps, or with the VCP code of the device.
Code(i) == IF i \in Specific THEN "specific" ELSE "default"

Set(i, value) ==
  /\ i \in Known
  /\ IF bls[i].emulated
       THEN /\ gamma_brightness' = [gamma_brightness EXCEPT ![i] = value]
            /\ UNCHANGED vcp
       ELSE /\ bls[i].monitor \in present
            /\ vcp' = [vcp EXCEPT ![bls[i].monitor][Code(i)] = value]
            /\ UNCHANGED gamma_brightness
  /\ UNCHANGED <<present, monitoring, pending, curr_cookie, bls, objects,
                 complete>>

\* get: always with the default VCP code.
Get(i) ==
  IF bls[i].emulated
    THEN IF gamma_brightness[i] = Absent THEN CHOOSE v \in Levels :
                                                \A w \in Levels : w <= v
         ELSE gamma_brightness[i]
  ELSE IF bls[i].monitor \in present THEN vcp[bls[i].monitor]["default"]
  ELSE 0

\* A monitor is plugged or unplugged: udev queues an event once it is asked to.
Hotplug(m) ==
  /\ pending < MaxPending
  /\ present' = IF m \in present THEN present \ {m} ELSE present \cup {m}
  /\ pending' = IF monitoring THEN pending + 1 ELSE pending
  /\ UNCHANGED <<monitoring, curr_cookie, bls, gamma_brightness, vcp, objects,
                 complete>>

Next ==
  \/ GetMonitor
  \/ Receive
  \/ \E i \in Ids, value \in Levels : Set(i, value)
  \/ \E m \in Monitors : Hotplug(m)

Spec == Init /\ [][Next]_vars

-----------------------------------------------------------------------------
(* Properties *)

\* No device holds a display reference of an earlier detection, which
\* libddcutil has invalidated: whatever was plugged, swapped or missed
\* between, a device is refreshed or removed (ddc.c:219-221).
DrefsFresh == \A i \in Known : bls[i].detected = curr_cookie

\* The objects that peers know are the devices of the map: signals tell each
\* that comes or goes after the first load (ddc.c:163-168, 229).
ObjectsKnown == objects = Known

\* Only devices that are there and emulated have an emulated brightness, so
\* that a monitor plugged anew starts from full brightness (ddc.c:138-142).
BrightnessOwned ==
  \A i \in Ids : gamma_brightness[i] # Absent => i \in Known /\ bls[i].emulated

\* Once the uevents are handled and the last detection missed nothing, the
\* daemon knows the monitors that are plugged, whatever earlier detections
\* missed, and from the first uevent on: it repairs what init missed between
\* load_devices and get_monitor (backlight2.c:95-96).
KnowsPresent ==
  complete /\ pending = 0 /\ curr_cookie > 0 =>
    Known = UNION {IdOf(m, m \notin Mute) : m \in present}
=============================================================================
