SPECIFICATION Spec
CONSTANTS
  ddc = ddc
  emu = emu
  twin = twin
  sn = sn
  busno = busno
  port1 = port1
  port2 = port2
  port3 = port3
  Absent = Absent
  Ids = {sn, busno, port1, port2, port3}
  Monitors = {ddc, emu, twin}
  Serial <- SerialNumbers
  Connector <- Ports
  Panels = {}
  Mute = {emu}
  Specific = {sn}
  DdcEnabled = TRUE
  EmulatedEnabled = TRUE
  Levels = {0, 1}
  MaxCookie = 3
  MaxPending = 2
INVARIANTS
  DrefsFresh
  ObjectsKnown
  BrightnessOwned
  KnowsPresent
CHECK_DEADLOCK FALSE
