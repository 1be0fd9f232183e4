# Clightd in TLA+

Clightd is a D-Bus daemon that reads and drives the light of a machine: screen
and keyboard backlight, gamma, DPMS, ambient light sensors and cameras, and the
idle time of the user. This directory holds TLA+ models of its modules, the TLC
configurations that check them and proofs about all of the modules.

All paths below are relative to `src/src/` of the repository unless they start
with `src/`.

    tlc -workers 2 -config MCIdle.cfg MCIdle.tla     # any run of the table below
    tlapm IdleProofs.tla                             # any module of proofs

## 1. The system

One process, one thread. Each file of `modules/` is a module of libmodule: it
registers file descriptors (a bus connection, timerfds, inotify, udev monitors)
and its `receive` is called for each descriptor that one `epoll_wait` found
ready. Bus methods are handlers that run to their end inside the dispatch of the
bus descriptor (`modules/bus.c`). So there are no data races; what makes the
daemon hard is what happens *between* handlers: the order of queued events,
devices that vanish, timers that expire while a call changes what they are for,
and state that survives a call and is stale in the next one.

| component | state | operations | interacts with |
|---|---|---|---|
| Idle (`modules/idle.c`) | pool of `idle_client_t`, `idler`, `running_clients`, the inotify watch, `last_input` | GetClient, DestroyClient, Start, Stop, Timeout; timer and inotify events | each client's owner on the bus |
| Backlight2 and Backlight (`backlight2.c`, `backlight.c`) | map `bls`, per device a smooth change, the global `verse` | Set, Raise, Lower, Get on one device or all; smooth timers | the plugins below; signals |
| plugin SYSFS (`backlight_plugins/sysfs.c`) | udev devices with cached attributes | get, set, udev add/change/remove | `bls` |
| plugin DDC (`backlight_plugins/ddc.c`) | `curr_cookie`, display references | detection, get, set | `bls`; `gamma_brightness` of Gamma for emulated monitors |
| Gamma (`gamma.c`, `gamma_plugins/`) | map of `gamma_client` in transition, `gamma_brightness` | Set, Get, timer; set_gamma_brightness | X, DRM and Wayland; called by DDC |
| Sensor (`sensor.c`) | devices fetched in a call | Capture, IsAvailable; Changed signals for what the monitors report | five sensor plugins |
| sensor plugins (`sensors/*.c`) | controls stored for restoring | fetch, validate, capture, destroy, monitor | devices |
| plugin PIPEWIRE (`sensors/pipewire.c`) | the map of camera nodes with their `cap_set`, `last_recved`, an eventfd | registration (at once or when the socket appears), registry events, capture | the PipeWire server; both it and Sensor are woken for one monitor |
| Keyboard (`keyboard.c`) | map of LED devices | Set, Get, SetTimeout, GetTimeout; udev events | sysfs |
| Dpms (`dpms.c`, `dpms_plugins/`) | protocol managers left in statics | Set, Get | X, Wayland (through `wl_utils.c`), DRM |
| Screen (`screen.c`, `screen_plugins/`) | none | GetEmittedBrightness | X, Wayland, framebuffer |
| Wayland connections (`utils/wl_utils.c`) | `wl_map`, connections by display name, each with the user it was opened for | fetch_wl_display | Gamma, Dpms, Screen |
| bus, signal, polkit, udev, credentials | static buffers of the last sender | drain the bus, quit, authorize, enumerate | all |

What makes each part correct, and the hazards at their lines, are in
`PROJECT.json`; in short:

- Idle: a client is idle only if the user was away, is woken by input, the
  shared watch follows the clients through every reuse of a slot, and the counters miss none.
- Backlight: what is cached, signalled and mapped follows the screens once events
  are handled; smooth changes approach their target and end.
- Monitors (DDC): no reference to an earlier detection is used, objects on the
  bus are those of the map, an emulated brightness belongs to a device.
- Gamma: a transition ends with what was signalled applied, refusals are retried.
- Gamma plugins: data that several clients of a display share is released once.
- Sensor: a reply is what was read, no device leaks, a device that went is signalled.
- Camera: controls are restored after the capture.
- PipeWire: the map holds the nodes that are, each capture counts its own frames.
- Dpms, Screen: a call reaches the screen that it names and what it replies is true of it.
- Keyboard: map and signals follow the devices, a yes means all were set.

## 2. The modules

Each module begins with its type invariant, `TypeOK`. That of Idle, Monitors, Gamma and
Backlight is part of what is proved (section 4); in the others it tells the reader the types.
Every module has one action per handler, timer or event of the environment. An
action is the whole handler, as the daemon is never preempted; only where a handler
waits for a device or server that changes meanwhile (Sensor, Camera, PipeWire, Dpms, Screen, Keyboard) is it cut into
steps. A call that is refused replies an error and changes nothing: it has no
action, except where it does change something (`DeniedCall` of Backlight).

- **Idle** — variables are the fields of `idle_client_t` as functions of the slot
  (`in_use`, `is_idle`, `running`, `timeout`, `sender`), the statics `idler`,
  `running_clients`, `watch` (`inot_wd`), and the kernel's side: `left` (seconds
  left in a timerfd, `Off` when disarmed), `inot` (inotify reads queued). Time is
  relative: `quiet` is the age of `last_input`, `rest` the time since the user last
  touched a device, which the daemon cannot see while nothing is watched. `batch`
  is what the last `epoll_wait` returned, all that was ready, and has not been dispatched; while it contains `Bus`, methods
  may be called. So a Stop may be handled before an expiry that was collected with it: the handler ignores what
  `read` says of the disarmed timer (idle.c:105). `late` counts these Stops, and `stale` holds the clients that are
  subject to one, or to a Timeout that moved their timer then; both are history variables.
- **IdleClient** — the abstract interface: each client is absent, stopped, active or idle, or late, if its Stop came
  after an expiry that will be dispatched, and has an owner. `Idle!ImplementsIdleClient` is the refinement.
- **Backlight** — `Call` is Set, Raise and Lower (`direction`) on one screen or on
  all, `SetBacklight` follows `map_iterate`, which stops at the first failure;
  `SmoothTick` is the timer, `UdevEvent` the udev monitor of internal screens,
  `Keys` and `Hotplug` the environment. `cached` is libudev's attribute cache.
  Percentages are integers `0..Full` and brightness one of `MaxOf[d] + 1` levels, so
  that the rounding of `sysfs.c:62-66` is visible. `alive` becomes FALSE where the
  code reads a NULL attribute (`atoi(NULL)`) of a device that has gone. `told` is the last Changed signal of a screen or,
  until there is one, the level that it was added with (`Signalled`, `Unsignalled`), as adding emits none.
- **Monitors** — `Receive` is a detection under the next cookie; `Loads` gives
  what `load_devices` makes of the map if it lists `seen` and hears `heard`.
  `detected` stands for the display reference. `complete` is a history variable.
- **Gamma** — a display and the names that clients file it under (on DRM the empty name is
  replaced by `validate`, `Filed`). `Set` starts or redirects a client, `Tick` is its timer, `Get` builds
  and destroys a client, `Dim` is `set_gamma_brightness`, `Switch` lets another process take the DRM
  master. `plugin` is the one that serves the display. For wlroots, `holder`, `pushed`, `wl` and `not_first_time`
  are the plugin's data, the stack of them and the registration of the connection,
  which clients share and the last one pops; `OutputComes` is a monitor that is plugged later. Numbers wrap at `Modulus`. The ramps
  are their temperature, and `Seen` is what `get_temp` may read back, any relation: rounding loses temperatures, the
  more so in ramps that brightness has scaled, and reading what was read may give a third one (1901, 1896, 1650). A DRM
  card may also fail to give its ramps, which reads as -1 (`misread`).
- **Sensor** (with **CustomSensor**, the settings and the clamping of
  `sensors/custom.c`) — `Call` and `IsAvailable`, `Find`, the capture loops (`Take`, `Repeat`, `Miss`, `Fail`,
  `NextWay`, `Captured`) and `Reply`; `Hotplug` fills the monitors, `Receive` handles an event and signals what it
  accepts (`Accepts`). The loops of the plugins differ in the slot a
  frame is stored in (`Slot`) and in what a failed read does (`Miss`, and `Repeat` of Yoctolight), the monitors in how
  much they read (`Reads`) and what they do with a device that is gone. The custom sensor has several scripts, the
  `NodesOf` it; `skipped` are those whose events were read with that of another one and dropped.
- **PipeWire** — the PIPEWIRE sensor with what Sensor does for it. `queue` is what the server sends; `Registers`
  is the inotify path to a connection, `Relay` the module PIPEWIRE, which only writes the eventfd,
  `Receive`, `Iterate` and `Finish` the handler of Sensor, which iterates the loop and
  signals the last node touched. `nodes`, `removed` and `orphans` are the map: the object of each path, those marked
  as removed and those that lost their entry to another one. `Touched` sets `last_recved`; `skipped` are the paths whose
  last event was followed by that of another one in its iteration. `Capture`, `Frame`, `StreamFails`, `Expires`, `OnTimeout`, `Ends`, `Breaks` are a capture.
- **Camera** — `todo` is the list of settings of one capture, default controls
  first; `stored` is `stored_values` with the names that the macro SET_V4L2 gives; `lost` records the
  controls whose entry another one of the same name, or of the same control, endangers (`Endangered`). What is named
  as in Sensor has the prefix `Camera`, as `SensorProofs` extends both.
- **Dpms** — a call names a display and an environment (an XAUTHORITY or a runtime directory, which the model takes for
  those of a user); `Owner` is the user whose screens are looked for, the sender's own if it names none. It walks the `chain` of plugins; `manager` is the static protocol
  object of each Wayland plugin (`null`, or `destroyed` by an earlier call), `wl_map`
  the connections with their user and the start of the compositor they lead to. `Lose` is a change that is lost
  without the plugin noticing. Set is authorized, Get and Screen are not; the empty X display is none, as the
  daemon has no DISPLAY.
- **Screen** — extends Dpms by the second user of those connections: `Shoot` asks the next of the
  `sources`, and `picture` is the screen that a brightness was taken from.
- **Keyboard** — `Begin` starts a Set or SetTimeout of one keyboard or all, `Iterate` writes the next one (`Visit`), in any
  order, and `Reply` answers with the result of the last; keys and hotplug come between two writes.
  Keys send a change event only on `Reporting` keyboards, as `keyboard.c:121` says that none may do; `silent` holds
  those whose keys changed them without. `missed` is a history variable of what changed before the udev monitor
  was open. It is assumed that the bus takes each object (`kbd_new` returns a freed keyboard otherwise), and that a
  keyboard that is replugged keeps its level; a Set on an empty map is not modelled.

`MC*` modules only give constants that a `.cfg` cannot write down. `map` in
`PROJECT.json` names the lines of every definition. Definitions such as
`RetimedDisarmed` beside `Retimed` are variants with a plausible bug; a `mutants` entry names
the property that catches it. No specification uses them.

## 3. The runs

| run | states | what it shows |
|---|---|---|
| MCIdle | 290364 | all that is ready in one batch, with a Stop that overtakes an expiry: counters, watch, timers, refinement of IdleClient, idle only when away; liveness |
| MCIdleCount | violation | an expiry that a Stop overtakes is counted: `idler` is not the number of idle clients |
| MCBacklight | 16212 | cache, signals, map, approach and end of smooth changes |
| MCBacklightLoop | violation | a smooth change with a small step never ends |
| MCGamma | 107272 | approach, what is signalled is applied, shared plugin data, transitions end |
| MCMonitors | 22323 | references, objects, emulated brightness, known = plugged |
| MCSensor | 3672392 | replies, errors, released devices, custom frames, removals of a camera and of two scripts told |
| MCSensorHole | violation | a failed read leaves a hole in an ALS reply |
| MCCamera | 38986 | settings restored, with and without failing ioctls |
| MCDpms | 808604 | Dpms and Screen in one daemon: only the screen that is asked for, replies are true of it, pictures are taken from it |
| MCKeyboard | 3085220 | known, told, yes means all |
| MCPipeWire | 233048 | map = nodes, told = present, own frames, events are handled |

**Bounds.**
- Idle: two clients and two peers let slots be reused by another peer, shared
  watches start and end, and one client be idle while the other is not; timeouts 1 and 2
  let a timer be moved forwards, backwards and below what has elapsed (MCIdleCount also has 0). `MaxQueued` reads of
  inotify merge beyond it, as reads of a full buffer do. `MaxEvents` is the number of descriptors here, as that of
  the loop is in practice larger; `MaxLate` is one Stop that overtakes an expiry: the client may be woken, started,
  stopped, destroyed and requested afterwards, beside another one. No symmetry where liveness is checked.
- Backlight: an internal panel of three levels and a flaky external one of two; a
  percentage has four units, so that 1 rounds to a level that it is not, and 5 is out of range.
  A queue of two events lets a change be handled after its panel has gone, and calls fall
  between a removal and its event.
- Gamma: a word of 16 values, temperatures 3..9: step 8 wraps on both sides, step 2
  overshoots; temperatures that read as another one, which reads as a third. One display of each kind of plugin, under its name and the empty one: data that clients share belongs to a display,
  and entries of different displays do not interact.
- Monitors: twins with one serial number, and a mute monitor that is emulated;
  three detections, so that a device that was missed may come back; two pending uevents.
- Sensor: two frames are enough for a miss before a hit. The ALS and Yoctolight are built in, the camera and two
  scripts, which are symmetric, come and go, with two events pending in all, so that one read may take those of both; each device
  but a script may become invalid between calls. A built-in device is never missing, which to a call is as if it did not validate.
- Camera: one flaky and one reliable control of each sort; up to three settings, one of them
  twice or of a control that every capture resets; four values, one of them negative.
- PipeWire: two cameras, each replaced once, so that a path gets a new node while the old one is still
  known; three events under way; bursts of two frames where one was asked for.
- Dpms and Screen: two users whose servers share one X and two Wayland display names, compositors with all the protocols or
  with outputs only, a card that may ignore what is written; peers switch screens to one level, and screens that start are on.
  Two starts of servers in all are a compositor that restarts, which leaves a dead connection, two of different users, or
  two with different protocols, of which the second gets the manager that the first left. Users are symmetric.
- Keyboard: two keyboards that are on or off, one flaky and without events for its keys, two queued events of each.

**Fairness.** `Idle!FairSpec`: time goes on, the loop waits again when it has dispatched all, and goes on dispatching
(weak fairness of `Tick`, `Wait` and `Dispatch`, as handlers of Idle and the bus never block); as a wait returns all
that is ready, no source is starved. Backlight and Gamma: timerfds fire and their handlers run
(weak fairness), udev events are read. Nothing is assumed of peers or users:
`SmoothEnds` and `TransitionsEnd` say "once they leave the screens alone". Sensor and Camera: none, as a camera may
block a call for ever (`camera.c:355`). PipeWire: handlers go on, the timer
of a capture expires and is served (weak fairness, as `capture` iterates the loop itself), and the two descriptors of the
monitor are served although peers may call all the time (strong fairness of `Relay` and `Receive`: a module that is ready
at each wait is dispatched in the end).

**Deadlock** is checked except where the system may stop: a daemon that died
(`alive` or `pc = "dead"`, in Backlight, Dpms, Gamma, Keyboard, PipeWire and Sensor), detections that have
used up `MaxCookie` (Monitors), nodes that have used up `MaxGen` (PipeWire).

## 4. The proofs

Eight modules of proofs; every invariant and every action property that a run checks is the conclusion of a
theorem. Each module shows that an inductive invariant (`TypeInv`, `Inv`) holds in the initial states, is
preserved by every step and implies the properties. The theorems hold for every value of
the constants that satisfies the named assumptions of the module (`...Assumption`), which say
what the code relies on: finite sets of clients or paths, limits in their order, names that are distinct.

| module | theorem | states |
|---|---|---|
| IdleProofs | eight, see below | the invariants of Idle and the refinement |
| BacklightProofs | ScreensInSync | `TypeOK`, `CacheInSync`, `SignalInSync`, `MapInSync` |
| | Approaches | `TowardTarget` |
| MonitorsProofs | MonitorsInv | `TypeOK` and the facts below |
| | DevicesCurrent | `DrefsFresh`, `ObjectsKnown`, `BrightnessOwned` |
| | PresentKnown | `KnowsPresent` |
| GammaProofs | GammaInv | `TypeOK` and what the wlroots plugin keeps |
| | Registered | `RegisteredOnce` |
| | Approaches | `TowardTarget` |
| | Applied | `SignalledApplied` |
| KeyboardProofs | KnownCorrect | `KnownInSync` |
| | PeersInformed | `ToldInSync` |
| | AnswersTrue | `YesMeansAll` |
| SensorProofs | RepliesCorrect | `NoDeviceLeft`, `ErrorOnlyIfNothing`, `ReplyIsTaken`, `FrameIsRatio` |
| | RemovalsSignalled | `RemovalTold` |
| | ControlsRestored | `SettingsRestored` of Camera |
| ScreenProofs | AskedDisplays | `AskedScreen`, `PictureIsAsked` |
| | RepliesTrue | `ReplyIsTrue` |
| PipeWireProofs | MapCorrect | `MapTrue`, `OwnFrames` |
| | NodesSignalled | `ToldTrue` |

Idle, for every finite set of clients, every set of peers and all bounds:

| theorem | states |
|---|---|
| TypeCorrect | `TypeOK` |
| WatchCorrect | `WatchMatchesRunners` |
| TimersArmed | `TimerArmed` |
| IdlersCovered | `IdlerCovers` |
| IdlersDrift | `IdlerDrift` |
| OwnersKept | `OwnerKept` |
| IdleOnlyWhenAway | `IdleMeansAway` |
| Implements | `ImplementsIdleClient` |

The argument: `TypeOK` is not inductive. Setting a Timeout moves the timer by a difference, which
stays in range only if a timer that counts never holds more than the Timeout it was armed with
(`LeftBounded`); an inotify read never finds an empty queue (`InotifyReady`); and only slots in use run
(`RunnersInUse`). Their conjunction `TypeInv` is inductive. `WatchMatchesRunners`
and `IdlerCovers` follow by counting: a start or stop adds or removes one
element of a finite set. The rest is about Stops that overtake an expiry, all of which the model allows:

- `Marks`: a client that is stopped and idle, or has a timer to come although it is stopped, or was started while it was (`Owed`), is
  `stale`; a stopped idle client has no timer left, and a free slot is clean.
- `Drift`, the invariant behind `IdlerDrift`: what `idler` has too much, plus the `Debtors`, which may still make it
  overcount by one each, are at most the Stops that were late. A late Stop adds a debtor; the expiry that is
  dispatched for it moves it from one side to the other; an input or a Destroy forgives it. Clients that are not
  debtors are counted and discounted once.
- `Away` relates the three clocks: unless input is queued, the time that the timer of a running client that is not
  stale has run, or else the age of `last_input`, is no more than `rest`, so that the handler, which compares the Timeout
  with that age, finds it exceeded only if the user was away.
- `Implements` maps `Late` clients to the phases "late" and "late idle" of IdleClient: a Start takes them as they are, and only
  from there does a client become idle that is not running.

The other arguments:

- *Backlight.* `Inv` of BacklightProofs has four parts. `Tells`: the last pending event about plugging says whether
  a screen is there; without one, the map does, for queues of any length. Only screens of the map are `Smoothing`.
  `Cached`: the cached brightness of an internal screen is its own, or an event is pending that will refresh it
  (`Awaits`): this is what a key pressed in between, and a write whose change event comes later, keep. `Told`: what was
  signalled last, or the level the screen was added with, is what is cached: each change of the cache is signalled (or
  had that level). `LevelLemma` is the rounding: `Level` is
  monotonic and takes the percentage of a level back to it, if the levels divide `Full`; with `NextPctLemma`, that a
  step in percentages does not pass its target, the levels do not either.
- *Monitors.* A detection merges what it finds under a new cookie, larger than all
  before. So a device either has that cookie, and its reference is of this detection, or is stale and
  removed with its object and its emulated brightness. `KnowsPresent` needs `Known` to be what the last
  detection found, which holds between detections as nothing else adds devices.
- *Gamma.* `TypeOK` needs targets in range (`Targeted`), or a transition could leave the word. `Stack` follows the
  data of the wlroots plugin: on the stack at most once, and held by each client or kept by the plugin. `TowardTarget` is
  arithmetic: a step that cannot wrap on either side does not pass its target. `SignalledApplied` is inductive with `Inv`: the tick
  that ends a client is one whose temperature the display took, and `Dim` applies what is read of the ramps, so that
  it stays in each set of temperatures that `Seen` does not leave (`Settled`). Nothing is assumed of `Seen`.
- *Keyboard.* `Tells`: the last pending event about plugging says whether the keyboard is there; without one, the
  map does. An event that is appended or handled keeps that, for queues of any length. `Told`: what peers
  heard, or the level that it was added with, is the level, or an event other than an add is pending, or its keys are
  silent. It needs `LevelLemma`, that the percentage of a level leads back to it, which holds if percentages are finer than
  levels (`Full >= 2 * MaxOf[k]`; in the code they are doubles). `Passed`, for `YesMeansAll`: as long as the last
  write succeeded, all keyboards that were visited hold the value, as the first that refuses ends the iteration.
- *Sensor.* `held` is at most the device in use (`Owned`); frames that were taken are never more than `ctr`, and as many but for
  a Yoctolight, and never more than turns, which are never more than slots (`Counted`); those of a camera or script are in the first slots in order (`Ordered`) and clamped.
  `LimitsLemma` is about the sanity checks of the custom sensor: they leave a range that is not empty. For `RemovalTold`:
  while a camera is gone, the last event that waits is its removal, and one waits if it was told as added
  (`CameraAwaited`); of a script that is gone some event waits if it was told as added (`ScriptAwaited`), which is
  then told as it is, unless a read dropped it (`skipped`).
- *Screen and Dpms.* `Asking`: whatever a plugin does, it refuses and changes nothing, or it drives, changes and fails, or misses
  without notice one screen that the call names; and a plugin is asked only while all before were wrong (`Inv`). A
  connection serves only the environment it was opened for, and a dead one offers nothing, so that it is never taken for the screen.
  `RepliesTrue` needs no hypothesis about cards and compositors: what its plugins cannot notice is in the property (`Unnoticed`).
- *PipeWire.* A node that is present has an object or its event is under way (`Here`); an object of a node that is not
  has its removal under way (`Gone`); nothing is heard twice or before it is (`Born`, `Unheard`), and a removed object is still that of
  its path (`Filed`). None of this holds once an object was put over another (`replaced`), which the theorem excludes.
  `Signalled`, for `ToldTrue`: between iterations a path that was not `skipped` was told as added iff it has an object, and during one, all but
  that of the node it touched last; a path that is touched again leaves `skipped`, as its last event is then signalled.
- *Camera.* An entry is the only one of its control and holds the value from before the capture; a control without
  one is unchanged, or restored (`Kept`), unless it was `lost`.

Only model-checked: liveness (`AwayBecomesIdle`, `InputWakes`, `SmoothEnds`, `TransitionsEnd`,
`EventsHandled`), which is beyond the prover.

## 5. Where code and documentation disagree

Three have a run whose counterexample shows them (`findings` in `PROJECT.json`): the count of idle clients
(`idle.c:105`), smooth changes that never end (`backlight2.c:223`) and the hole in ALS replies (`sensors/als.c:54,147`). The models have these behaviours and those below too, and the
properties that pass are stated so as to exclude them and nothing more:

- `idle.c:105-121` declares a client idle and counts it although a Stop was handled in the same
  batch: `idler` (idle.c:38, "how many idle clients do we have?") then stays too high, by one for each such Stop at most (`IdlerDrift`), never
  too low (`IdlerCovers`). The client may be stopped and idle, or be started idle, and its timer runs on (`Late`), from a
  `last_input` that may be old (`IdleMeansAway` excludes `stale` clients).
- `backlight2.c:374,379` set `verse` before the authorization check: a denied Raise turns the next
  Set or tick into a relative change (`DeniedCall`; `TowardTarget` asks `verse = 0`).
- `backlight2.c:250-252` arm a timer also for a change that has reached its
  target at once, with target 0 (`Remaining`; the timer steps towards 0 once).
- `gamma.c:83,87` wrap for large steps: temperatures beyond those that gamma.c:332 allows are signalled
  and applied (`Proper`).
- `gamma.c:268` applies an emulated brightness at the temperature that a
  plugin reads, which is 0 on wlroots (`Dim`); elsewhere repeated changes may move the temperature each time, as
  `get_temp` does not give the same when read twice (`Seen`, `Settled`). A DRM card that does not give its ramps is
  written at -1 (`misread`, which `SignalledApplied` excludes).
- `ddc.c:220,228`: "non-existent" monitors that are removed include those that could not be
  opened once (`complete` in `KnowsPresent`).
- `ddc.c:105-112` set with the VCP code of a monitor, lines 66 and 129 read with the default one (`Code`, `Get`).
- `gamma.c:320` files a client under the name it was called with, `validate` of DRM then replaces the empty one: the
  entry is looked up in vain afterwards, and filed over (`Filed`, `Set`: the end state `clash`).
- `gamma_plugins/wl.c:310`: an output that is plugged later joins the list without a gamma control,
  and the next temperature that is set ends the daemon (`OutputComes`, `Wrote`).
- `sensors/camera.h:18,194`: all settings of a caller are stored under the name of the macro argument, `v4l2_op`, so that of two settings
  only the last is restored (`Endangered`).
- `sensors/camera.c:137` takes a negative stored value for "default" (`Asked`): a control that was negative
  is not restored to its value.
- `sensors/als.c`, `sensors/yoctolight.c`: a device that was removed is not signalled, as its attributes
  cannot be read any more (`Accepts`).
- `sensors/custom.c:174` closes a script that it could not open (`Fail`, the end of the daemon); line 81 reads several inotify events and uses the
  first, so that what happened to another script is not signalled (`Reads`, `skipped`).
- `sensors/yoctolight.c:341` ignores whether the transfer failed: the packet before counts as a frame again, so that a capture of which all transfers
  failed replies frames (`Repeat`; `ReplyIsTaken` and `ErrorOnlyIfNothing` exclude Yoctolight).
- `sensors/camera.c:58,355`: a camera is opened without O_NONBLOCK, and VIDIOC_DQBUF may block the daemon for ever (no liveness of Sensor is claimed).
- `sensors/camera.c:142` does not look whether VIDIOC_QUERYCTRL failed and takes 0 for the default (`Outcomes`).
- `sensors/pipewire.c:431` puts a node over an earlier one of the same path, whose removal was not heard yet (`Added`, `replaced`).
- `sensors/pipewire.c:539`: of several nodes that one iteration touches, only the last is signalled and let go (`Finish`, `Touched`, `skipped`).
- `sensors/pipewire.c:556-562`: a registration that fails closes the eventfd; a later connection is then never heard
  (`Registers`). Its number is not reset (562-564), so that later writes and closes hit whatever descriptor has it then; in the model they do nothing.
- `sensors/pipewire.c`, `on_process` writes and counts buffers beyond the slots of the caller (`Frame`).
- `screen_plugins/wl.c` cleans up a list that it has not initialized when there is no connection, so that the
  framebuffer after it in the chain is never asked; an output without a frame, or one that fails early, also ends the daemon, and a
  copy that fails counts as black (`ShootWayland`, `ShootCompositor`).
- `utils/wl_utils.c:63-72`: a connection to a compositor that has ended, or that was opened for another user, is never replaced (`Connected`).
- `utils/wl_utils.c:36`, `utils/xorg_utils.c:12`: the environment of a call is what its caller passes, the caller's own only if that is empty, and Get and
  Screen ask for no authorization: the properties are about the environment that is named, not about who calls (`Owner`).
- `sensors/custom.c:140` resets a wrong minimum to the default *maximum* (`SaneMin`).
- `dpms_plugins/wl.c:135` destroys the protocol manager and leaves the pointer: a compositor without the
  protocol is then asked through it, and its outputs are taken to be off, or set, without effect (`AskWayland`, `Lose`; `Unnoticed` in `ReplyIsTrue`).
- `dpms_plugins/drm.c:82`: that a card does not take the property, or has no output, is not told (`AskDrm`, `Lose`; `Unnoticed`).
- `dpms.c:116` reports the -1 that `dpms_plugins/drm.c:17` documents as an error (`AskDrm`).
- `keyboard.c:324` multiplies hours by 120, and the text it parses belongs to a device that was released (313-319): GetTimeout is not modelled.
- `keyboard.c:121`: keys may send no event, so that peers are not told of what they change (`Keys`, `silent`, which `ToldInSync` excludes).

## 6. What is not modelled

Formatting, object paths, logging, the pixels, ramps and image statistics (pure data), polkit and
credentials (an authorized call is the action), USB and PipeWire protocols, the
enumeration of devices by udev, start and exit of the daemon (nothing is persisted), the wall clock being stepped.
`components` in `PROJECT.json` lists each part with the reason.

## 7. Plan

1. Composition of Monitors and Gamma through `gamma_brightness`, with ramps that fail.
2. Yoctolight's handshake and its retries; `get_temp`'s bisection against its inverse.
3. Proofs: the abstract interface that Backlight and Keyboard share (known, told and real level of a device behind a
   queue of events), as a module that both refine.
